---- MODULE Spec2Model ----
(***************************************************************************)
(* Xapiand schema engine (src/src/database/schema.cc).                     *)
(*                                                                         *)
(* A Schema object holds a published, shared, immutable schema tree        *)
(* (`schema`) and at most one private draft (`mut_schema`).  The entry     *)
(* points Schema::index, Schema::update and Schema::write walk a document  *)
(* (or a schema fragment) with a `specification` that is threaded through  *)
(* the recursive traversal, read the newest tree, write to the draft and   *)
(* emit terms, values and stored data for the document.                    *)
(*                                                                         *)
(* Trees are functions from field paths to nodes; a node is a function     *)
(* from the reserved keys it holds to their values.  MsgPack values of a   *)
(* document are records tagged by `t`.                                     *)
(***************************************************************************)
EXTENDS Integers, Sequences, FiniteSets, TLC

VARIABLES
    schema,         \* Schema::schema: the published tree (content + node data)
    mut_schema,     \* Schema::mut_schema: the draft tree, or NoDraft
    specification,  \* Schema::specification as left by the last call
    map_values,     \* Schema::map_values: slot -> values of the last document
    result,         \* outcome of the last call (error, document, stored data, log)
    workload,       \* which family of requests this Schema object is driven with
    keeps_data,     \* whether a MsgPack node keeps its attached data when written
    calls,          \* number of index/update/write calls made so far
    alloc           \* Schema::index picking an id: its db_handler and its locals

vars == <<schema, mut_schema, specification, map_values, result, workload, keeps_data, calls,
          alloc>>

----------------------------------------------------------------------------
(* Bounds *)

MaxCalls == 3

----------------------------------------------------------------------------
(* MsgPack values *)

MkVal(t, n, s, len, items) == [t |-> t, n |-> n, s |-> s, len |-> len, items |-> items]

Nil == MkVal("nil", 0, "", 0, <<>>)
Undefined == MkVal("undefined", 0, "", 0, <<>>)
Pos(n) == MkVal("pos", n, "", 0, <<>>)
Neg(n) == MkVal("neg", n, "", 0, <<>>)
Flt(n) == MkVal("float", n, "", 0, <<>>)
Bool(b) == MkVal("bool", IF b THEN 1 ELSE 0, "", 0, <<>>)
Str(s, len) == MkVal("str", 0, s, len, <<>>)
Arr(items) == MkVal("array", 0, "", 0, items)
Map(kv) == MkVal("map", 0, "", 0, kv)

is_null(v) == v.t = "nil"
is_undefined(v) == v.t = "undefined"
is_map(v) == v.t = "map"
is_array(v) == v.t = "array"
is_string(v) == v.t = "str"
is_boolean(v) == v.t = "bool"

\* Position of `key` in the key/value sequence of a map, 0 when absent.
Find(kv, key) ==
    IF \A i \in DOMAIN kv : kv[i][1] # key THEN 0
    ELSE CHOOSE i \in DOMAIN kv : kv[i][1] = key /\ \A j \in 1 .. (i - 1) : kv[j][1] # key
HasKey(v, key) == is_map(v) /\ Find(v.items, key) # 0
At(v, key) == v.items[Find(v.items, key)][2]

----------------------------------------------------------------------------
(* Field types and their string form *)

SPC_FOREIGN_TYPE == 1
SPC_OBJECT_TYPE == 2
SPC_ARRAY_TYPE == 3
SPC_CONCRETE_TYPE == 4

ConcreteTypes ==
    {"boolean", "date", "datetime", "floating", "geo", "integer", "positive",
     "string", "keyword", "text", "time", "timedelta", "uuid", "script"}

\* enum_name(FieldType) as used in the persisted `_type` string.
ConcreteWord(t, composed) ==
    IF t = "floating" THEN (IF composed THEN "float" ELSE "floating")
    ELSE IF t = "geo" THEN "geospatial"
    ELSE t

WordConcrete(w) ==
    IF w \in {"float", "floating"} THEN "floating"
    ELSE IF w = "geospatial" THEN "geo"
    ELSE IF w = "term" THEN "keyword"
    ELSE IF w \in ConcreteTypes \ {"geo"} THEN w
    ELSE "empty"

EmptyTypes == <<"empty", "empty", "empty", "empty">>

SeqToSet(s) == {s[i] : i \in DOMAIN s}

\* A `_type` string is the sequence of its '/'-separated words.  Strings the
\* table does not list yield four empty types.
_get_type(words) ==
    LET S == SeqToSet(words)
        conc == {w \in S : WordConcrete(w) # "empty"}
        known ==
            /\ Len(words) \in 1..3
            /\ Cardinality(S) = Len(words)
            /\ \A w \in S : w \in {"foreign", "object", "array"} \/ WordConcrete(w) # "empty"
            /\ Cardinality(conc) <= 1
            /\ "foreign" \in S => S \in {{"foreign"}, {"foreign", "object"}}
            /\ "floating" \in S => Len(words) = 1
            /\ "script" \in S => Len(words) = 1
        c == IF conc = {} THEN "empty" ELSE WordConcrete(CHOOSE w \in conc : TRUE)
    IN  IF ~known THEN EmptyTypes
        ELSE << IF "foreign" \in S THEN "foreign" ELSE "empty",
                IF "object" \in S THEN "object" ELSE "empty",
                IF "array" \in S THEN "array" ELSE "empty",
                c >>

\* The combinations _get_str_type has no string for.
StrTypeSupported(sep) ==
    IF sep[SPC_FOREIGN_TYPE] = "foreign"
    THEN sep[SPC_ARRAY_TYPE] = "empty" /\ sep[SPC_CONCRETE_TYPE] \in {"empty", "script"}
         /\ (sep[SPC_CONCRETE_TYPE] = "script" => sep[SPC_OBJECT_TYPE] = "empty")
    ELSE sep[SPC_CONCRETE_TYPE] = "script"
            => sep[SPC_OBJECT_TYPE] = "empty" /\ sep[SPC_ARRAY_TYPE] = "empty"

_get_str_type(sep) ==
    LET composed == sep[SPC_OBJECT_TYPE] = "object" \/ sep[SPC_ARRAY_TYPE] = "array"
    IN  IF sep = EmptyTypes THEN <<"undefined">>
        ELSE (IF sep[SPC_FOREIGN_TYPE] = "foreign" THEN <<"foreign">> ELSE <<>>)
          \o (IF sep[SPC_OBJECT_TYPE] = "object" THEN <<"object">> ELSE <<>>)
          \o (IF sep[SPC_ARRAY_TYPE] = "array" THEN <<"array">> ELSE <<>>)
          \o (IF sep[SPC_CONCRETE_TYPE] # "empty"
              THEN <<ConcreteWord(sep[SPC_CONCRETE_TYPE], composed)>> ELSE <<>>)

\* required_spc_t::get_ctype: the byte appended to a prefix for a typed term.
get_ctype(t) ==
    IF t \in {"integer", "positive", "floating"} THEN "N"
    ELSE IF t \in {"date", "datetime", "time", "timedelta"} THEN "D"
    ELSE IF t = "geo" THEN "G"
    ELSE IF t = "boolean" THEN "B"
    ELSE IF t = "uuid" THEN "U"
    ELSE IF t = "keyword" THEN "K"
    ELSE IF t \in {"string", "text"} THEN "S"
    ELSE "?"

----------------------------------------------------------------------------
(* Slots, prefixes, index modes *)

MkSlot(k, p, c, n) == [k |-> k, p |-> p, c |-> c, n |-> n]
BAD_VALUENO == MkSlot("bad", <<>>, "", 0)
DB_SLOT_ROOT == MkSlot("root", <<>>, "", 0)
DB_SLOT_ID == MkSlot("num", <<>>, "", 0)
UserSlot(n) == MkSlot("num", <<>>, "", n)

\* get_slot(prefix, ctype): a hash of the prefix and the type byte; distinct
\* arguments are taken to give distinct slots.
get_slot(prefix, ctype) == MkSlot("hash", prefix, ctype, 0)

DOCUMENT_ID_TERM_PREFIX == "Q"

\* get_prefix(name): hashed prefix of a field name, one token per name.
get_prefix(name) == name

\* An accuracy list without its prefixes.
no_acc_prefix(accuracy) == <<>>

\* get_acc_prefix: the prefix of each accuracy, in the order of the list;
\* get_prefix(uint64_t) is taken on the digits of the number.
get_acc_prefix(accuracy) == [i \in DOMAIN accuracy |-> get_prefix(ToString(accuracy[i]))]

\* The name of the schema child every UUID-named field shares.
UUID_FIELD_NAME == "<uuid_field>"

\* The textual forms of a UUID a document may use as a field name: compact,
\* canonical, urn and braced forms of one UUID, and a second UUID.
UUID_compact == "~3pZyPcFqGq"
UUID_canonical == "00000000-0000-1000-8000-c97562616c75"
UUID_urn == "urn:uuid:00000000-0000-1000-8000-c97562616c75"
UUID_braced == "{00000000-0000-1000-8000-c97562616c75}"
UUID_second == "00000000-0000-1000-8000-010000000000"
UUIDForms == {UUID_compact, UUID_canonical, UUID_urn, UUID_braced}

\* A string that has the shape of a UUID without being one.
UUID_malformed == "00000000-0000-1000-8000-zzzzzzzzzzzz"

\* Serialise::possiblyUUID: the string may be a UUID.
possiblyUUID(name) == name \in UUIDForms \cup {UUID_second, UUID_malformed}

\* normalize_uuid: the one textual form of the UUID a string denotes.
normalize_uuid(name) == IF name \in UUIDForms THEN UUID_canonical ELSE name

\* Serialise::uuid: the bytes of the UUID, one token per UUID; the empty
\* string stands for SerialisationError.
SerialiseUUID(name) ==
    IF name \in UUIDForms THEN "uuid:c97562616c75"
    ELSE IF name = UUID_second THEN "uuid:010000000000"
    ELSE ""

\* TypeIndex as the set of its bits.
FIELD_TERMS == {"field_terms"}
FIELD_VALUES == {"field_values"}
FIELD_ALL == {"field_terms", "field_values"}
INDEX_NONE == {}
GLOBAL_TERMS == {"global_terms"}
GLOBAL_VALUES == {"global_values"}
TERMS == GLOBAL_TERMS \cup FIELD_TERMS
VALUES == GLOBAL_VALUES \cup FIELD_VALUES
GLOBAL_ALL == GLOBAL_TERMS \cup GLOBAL_VALUES
INDEX_ALL == GLOBAL_ALL \cup FIELD_ALL

_get_index(str) ==
    IF str = "none" THEN INDEX_NONE
    ELSE IF str = "field_terms" THEN FIELD_TERMS
    ELSE IF str = "field_values" THEN FIELD_VALUES
    ELSE IF str \in {"field_all", "field"} THEN FIELD_ALL
    ELSE {"invalid"}

_get_str_index(index) ==
    IF index = INDEX_NONE THEN "none"
    ELSE IF index = FIELD_TERMS THEN "field_terms"
    ELSE IF index = FIELD_VALUES THEN "field_values"
    ELSE "field_all"

----------------------------------------------------------------------------
(* specification_t *)

NoValue == MkVal("none", 0, "", 0, <<>>)

\* flags_t(), required_spc_t() and specification_t() constructors.
default_spc ==
    [ sep_types |-> EmptyTypes,
      prefix |-> <<>>,
      prefix_uuid |-> <<>>,
      local_prefix |-> "",
      local_prefix_uuid |-> "",
      uuid_field |-> FALSE,
      uuid_path |-> FALSE,
      slot |-> BAD_VALUENO,
      index |-> FIELD_ALL,
      position |-> 0,
      endpoint |-> "",
      meta_name |-> "",
      full_meta_name |-> <<>>,
      value |-> NoValue,
      value_rec |-> NoValue,
      doc_acc |-> NoValue,
      accuracy |-> <<>>,
      acc_prefix |-> <<>>,
      bool_term |-> FALSE,
      store |-> TRUE,
      parent_store |-> TRUE,
      recurse |-> TRUE,
      dynamic |-> TRUE,
      strict |-> FALSE,
      date_detection |-> TRUE,
      datetime_detection |-> TRUE,
      time_detection |-> TRUE,
      timedelta_detection |-> TRUE,
      numeric_detection |-> TRUE,
      geo_detection |-> TRUE,
      bool_detection |-> TRUE,
      text_detection |-> TRUE,
      uuid_detection |-> TRUE,
      field_found |-> TRUE,
      concrete |-> FALSE,
      complete |-> FALSE,
      has_bool_term |-> FALSE,
      has_index |-> FALSE,
      static_endpoint |-> FALSE,
      partial_paths |-> FALSE,
      partial_prefixes |-> <<>>,
      partial_index_spcs |-> {} ]

\* An assignment that leaves the specification as it is.
spc_left(cur, o) == cur

\* specification_t::operator=: every listed member is copied, `value`,
\* `value_rec` and `doc_acc` are reset, `endpoint` is not listed and keeps its
\* value.
spc_assign(cur, o) ==
    [o EXCEPT !.endpoint = cur.endpoint, !.value = NoValue, !.value_rec = NoValue,
              !.doc_acc = NoValue]

\* specification_t copy constructor: `endpoint`, `value`, `value_rec` and
\* `doc_acc` are not listed and are default-initialised.
spc_copy(o) ==
    [o EXCEPT !.endpoint = "", !.value = NoValue, !.value_rec = NoValue,
              !.doc_acc = NoValue]

restart_specification(spc) ==
    [spc EXCEPT !.bool_term = default_spc.bool_term,
                !.has_bool_term = default_spc.has_bool_term,
                !.has_index = default_spc.has_index,
                !.static_endpoint = default_spc.static_endpoint,
                !.concrete = default_spc.concrete,
                !.complete = default_spc.complete,
                !.uuid_field = default_spc.uuid_field,
                !.sep_types = default_spc.sep_types,
                !.endpoint = default_spc.endpoint,
                !.local_prefix = default_spc.local_prefix,
                !.local_prefix_uuid = default_spc.local_prefix_uuid,
                !.slot = default_spc.slot,
                !.accuracy = default_spc.accuracy,
                !.acc_prefix = default_spc.acc_prefix,
                !.partial_index_spcs = default_spc.partial_index_spcs]

----------------------------------------------------------------------------
(* Schema trees *)

\* A tree: `n` maps the path of every node under `schema` to its reserved
\* keys, `fed` maps a path to the FedSpecification attached to that node (the
\* feed cache), `top` holds the keys beside `schema`.
MkTree(n, fed) == [null |-> FALSE, n |-> n, fed |-> fed, top |-> <<>>]
NoDraft == [null |-> TRUE, n |-> <<>>, fed |-> <<>>, top |-> <<>>]

\* Schema::get_initial_schema: { _ignore: "schema", schema: {} }.
get_initial_schema == MkTree(<<>> :> <<>>, <<>>)

HasNode(tree, p) == p \in DOMAIN tree.n
HasProp(tree, p, key) == HasNode(tree, p) /\ key \in DOMAIN tree.n[p]
ChildrenOf(tree, p) ==
    {q \in DOMAIN tree.n : Len(q) = Len(p) + 1 /\ SubSeq(q, 1, Len(p)) = p}

\* MsgPack::empty() of a map node: no reserved key and no child.
NodeEmpty(tree, p) == DOMAIN tree.n[p] = {} /\ ChildrenOf(tree, p) = {}

\* MsgPack::get(field): the child, created empty when absent.
RECURSIVE GetPath(_, _, _)
GetPath(tree, p, i) ==
    IF i > Len(p) THEN tree
    ELSE LET q == SubSeq(p, 1, i)
         IN  GetPath(IF HasNode(tree, q) THEN tree
                     ELSE [tree EXCEPT !.n = (q :> <<>>) @@ tree.n], p, i + 1)

Put(tree, p, key, val) ==
    [tree EXCEPT !.n = (p :> ((key :> val) @@ tree.n[p])) @@ tree.n]

\* MsgPack::clone() / copy: the content without the attached data.
clone(tree) == [tree EXCEPT !.fed = <<>>]

----------------------------------------------------------------------------
(* The traversal context                                                   *)
(*                                                                         *)
(* spc    Schema::specification                                            *)
(* trees  the published tree (`sch`) and the draft (`mut`)                 *)
(* fields the FieldVector being filled by the running dispatch             *)
(* doc    the Xapian::Document: terms, postings, boolean terms             *)
(* mv     Schema::map_values                                               *)
(* data   the stored object: path -> values stored under `_value`          *)
(* log    one record per field entered and per value indexed               *)
(* err    "" or the class of the exception in flight; msg its text         *)
(* dropped whether the catch clause of the call found a draft to discard   *)
(* kept   whether writing a node keeps the data attached to it             *)
(***************************************************************************)

EmptyDoc == [terms |-> {}, postings |-> {}, bterms |-> {}, values |-> <<>>]

NewCtx(spc, sch, mut, kept) ==
    [ spc |-> spc, trees |-> [sch |-> sch, mut |-> mut], fields |-> <<>>,
      doc |-> EmptyDoc, mv |-> <<>>, data |-> <<>>, dptr |-> <<>>, log |-> <<>>,
      err |-> "", msg |-> "", dropped |-> FALSE, kept |-> kept, ret |-> FALSE,
      ids |-> <<>>, added |-> {}, starts |-> <<>>, feeds |-> <<>> ]

\* map_values as the call finds it: what the last call left.
WithValues(c, values) == [c EXCEPT !.mv = values]

\* map_values with every value left in it.
cleared_never(values) == values

\* map_values.clear()
map_values_clear(values) == <<>>

THROW(c, kind, msg) == [c EXCEPT !.err = kind, !.msg = msg]
Ok(c) == c.err = ""
WithSpc(c, spc) == [c EXCEPT !.spc = spc]


\* Sequencing of statements is written (CHOOSE the \in {body : v \in {e}} : TRUE):
\* `e` is computed once, before `body`, which goes on with its value `v`.


\* A properties pointer: the tree it points into and the path of the node.
Ptr(t, p) == [t |-> t, p |-> p]
NodeOf(c, ptr) == c.trees[ptr.t].n[ptr.p]

\* Schema::get_newest_properties(): the draft's root when there is a draft.
get_newest_properties(c) ==
    IF c.trees.mut.null THEN Ptr("sch", <<>>) ELSE Ptr("mut", <<>>)

\* The segments are get()-created in the published tree as well.
get_mutable_properties_inplace(c, full_meta_name) ==
    [c |-> [c EXCEPT !.trees.mut =
                GetPath(IF c.trees.mut.null THEN clone(c.trees.sch) ELSE c.trees.mut,
                        full_meta_name, 1),
                     !.trees.sch = GetPath(c.trees.sch, full_meta_name, 1)],
     ptr |-> Ptr("mut", full_meta_name)]

\* Schema::get_mutable_properties(full_meta_name): the draft is created as a
\* clone of the published tree on first use; every segment is get()-created.
get_mutable_properties(c, full_meta_name) ==
    [c |-> [c EXCEPT !.trees.mut =
                GetPath(IF c.trees.mut.null THEN clone(c.trees.sch) ELSE c.trees.mut,
                        full_meta_name, 1)],
     ptr |-> Ptr("mut", full_meta_name)]

\* The attached data of a node after the node is written.
Written(tree, p, kept) ==
    IF kept THEN tree
    ELSE (CHOOSE the \in {
             [t EXCEPT !.fed = [q \in DOMAIN t.fed \ {p} |-> t.fed[q]]]
             : t \in {tree}} : TRUE)

\* mut_properties[key] = val
Assign(c, ptr, key, val) ==
    [c EXCEPT !.trees[ptr.t] = Written(Put(@, ptr.p, key, val), ptr.p, c.kept)]

----------------------------------------------------------------------------
(* Accuracy tables *)

\* UnitTime.  A unit is held as its position in this list, which orders the
\* units as their lengths in seconds do; the lengths of a century and of a
\* millennium are beyond the integers of the checker.
UnitTimes ==
    <<"second", "minute", "hour", "day", "month", "year", "decade", "century",
      "millennium">>

\* The lengths in seconds of the units up to the decade.
UnitSeconds == <<1, 60, 3600, 86400, 2592000, 31536000, 315360000>>

INVALID == 0

UnitNamed(name) == CHOOSE i \in DOMAIN UnitTimes : UnitTimes[i] = name

\* static_cast<UnitTime>(n): the unit that lasts n seconds, if any.
UnitTime(n) ==
    IF \E i \in DOMAIN UnitSeconds : UnitSeconds[i] = n
    THEN CHOOSE i \in DOMAIN UnitSeconds : UnitSeconds[i] = n
    ELSE INVALID

validate_acc_date(unit) == unit \in DOMAIN UnitTimes

_get_str_acc_date(unit) == IF unit \in DOMAIN UnitTimes THEN UnitTimes[unit] ELSE "INVALID"

_get_accuracy_datetime(str) ==
    IF str \in SeqToSet(UnitTimes) THEN UnitNamed(str) ELSE INVALID

_get_accuracy_time(str) ==
    IF str \in {"second", "minute", "hour"} THEN UnitNamed(str) ELSE INVALID

def_accuracy_num == <<100, 1000, 10000, 100000, 1000000, 100000000>>

def_accuracy_date ==
    <<UnitNamed("day"), UnitNamed("month"), UnitNamed("year"), UnitNamed("decade"),
      UnitNamed("century")>>

def_accuracy_datetime ==
    <<UnitNamed("hour"), UnitNamed("day"), UnitNamed("month"), UnitNamed("year"),
      UnitNamed("decade"), UnitNamed("century")>>

def_accuracy_time == <<UnitNamed("minute"), UnitNamed("hour")>>

def_accuracy_geo == <<3, 5, 8, 10, 12, 15>>

HTM_MAX_LEVEL == 25

DateTypes == {"date", "datetime", "time", "timedelta"}

\* The elements of a std::set<uint64_t>, in its iteration order.
Ascending(set) ==
    [i \in 1 .. Cardinality(set) |->
        CHOOSE x \in set : Cardinality({y \in set : y < x}) = i - 1]

----------------------------------------------------------------------------
(* feed_*: load the persisted properties of a node into the specification *)

feed_type(spc, words) ==
    (CHOOSE the \in {
        [spc EXCEPT !.sep_types = t, !.concrete = t[SPC_CONCRETE_TYPE] # "empty"]
        : t \in {_get_type(words)}} : TRUE)

feed_prefix(spc, prefix) == [spc EXCEPT !.local_prefix = prefix]

feed_slot(spc, slot) == [spc EXCEPT !.slot = slot]

feed_index(spc, str) == [spc EXCEPT !.index = _get_index(str), !.has_index = TRUE]

feed_store(spc, b) ==
    [spc EXCEPT !.parent_store = spc.store, !.store = b /\ spc.store]

feed_strict(spc, b) == [spc EXCEPT !.strict = b]

feed_bool_term(spc, b) == [spc EXCEPT !.bool_term = b]

feed_endpoint(spc, e) == [spc EXCEPT !.endpoint = e, !.static_endpoint = TRUE]

feed_partial_paths(spc, b) == [spc EXCEPT !.partial_paths = b]

\* The persisted `_accuracy` holds unit names for the date and time types and
\* numbers for the others.
feed_accuracy(spc, items) ==
    [spc EXCEPT !.accuracy =
        [i \in DOMAIN items |->
            IF is_string(items[i]) THEN _get_accuracy_datetime(items[i].s)
            ELSE items[i].n]]

feed_acc_prefix(spc, items) == [spc EXCEPT !.acc_prefix = items]

\* The nine detection flags and the reserved key of each.
DetectionKeys ==
    {"_date_detection", "_datetime_detection", "_time_detection",
     "_timedelta_detection", "_numeric_detection", "_geo_detection",
     "_bool_detection", "_text_detection", "_uuid_detection"}

DetectionFlag(key) ==
    CASE key = "_date_detection" -> "date_detection"
      [] key = "_datetime_detection" -> "datetime_detection"
      [] key = "_time_detection" -> "time_detection"
      [] key = "_timedelta_detection" -> "timedelta_detection"
      [] key = "_numeric_detection" -> "numeric_detection"
      [] key = "_geo_detection" -> "geo_detection"
      [] key = "_bool_detection" -> "bool_detection"
      [] key = "_text_detection" -> "text_detection"
      [] key = "_uuid_detection" -> "uuid_detection"

\* feed_date_detection ... feed_uuid_detection
feed_detection(spc, key, b) == [spc EXCEPT ![DetectionFlag(key)] = b]

FeedKey(spc, node, key) ==
    IF key \notin DOMAIN node THEN spc
    ELSE CASE key = "_type" -> feed_type(spc, node[key])
           [] key = "_prefix" -> feed_prefix(spc, node[key])
           [] key = "_slot" -> feed_slot(spc, node[key])
           [] key = "_index" -> feed_index(spc, node[key])
           [] key = "_store" -> feed_store(spc, node[key])
           [] key = "_strict" -> feed_strict(spc, node[key])
           [] key = "_bool_term" -> feed_bool_term(spc, node[key])
           [] key = "_endpoint" -> feed_endpoint(spc, node[key])
           [] key = "_partial_paths" -> feed_partial_paths(spc, node[key])
           [] key = "_accuracy" -> feed_accuracy(spc, node[key])
           [] key = "_acc_prefix" -> feed_acc_prefix(spc, node[key])
           [] key \in DetectionKeys -> feed_detection(spc, key, node[key])
           [] OTHER -> spc

\* The keys a properties node is read for.
FeedOrder ==
    <<"_type", "_prefix", "_slot", "_index", "_store", "_strict", "_bool_term",
      "_endpoint", "_partial_paths", "_accuracy", "_acc_prefix",
      "_date_detection", "_datetime_detection", "_time_detection",
      "_timedelta_detection", "_numeric_detection", "_geo_detection",
      "_bool_detection", "_text_detection", "_uuid_detection">>

\* The keys FeedOrder[lo .. hi] fed one after the other, the first half of
\* the range before the second.
RECURSIVE FeedRange(_, _, _, _)
FeedRange(spc, node, lo, hi) ==
    IF lo = hi THEN FeedKey(spc, node, FeedOrder[lo])
    ELSE (CHOOSE the \in {
             FeedRange(fed, node, (lo + hi) \div 2 + 1, hi)
             : fed \in {FeedRange(spc, node, lo, (lo + hi) \div 2)}} : TRUE)

\* Every feed handler sets members no other feed handler reads, so the order
\* of the keys in the node does not matter.
dispatch_feed_properties(spc, node) == FeedRange(spc, node, 1, Len(FeedOrder))

----------------------------------------------------------------------------
(* process_*, consistency_* and write_*: apply one reserved key of the     *)
(* document to the specification (and, for write_*, to the draft).         *)

is_number(v) == v.t \in {"pos", "neg", "float"}
boolean(v) == v.n = 1

process_slot(c, v) ==
    IF is_number(v) THEN WithSpc(c, [c.spc EXCEPT !.slot = UserSlot(v.n)])
    ELSE THROW(c, "ClientError", "must be integer")

process_type(c, v) ==
    IF ~is_string(v) THEN THROW(c, "ClientError", "must be string")
    ELSE (CHOOSE the \in {
             IF t = EmptyTypes THEN THROW(c, "ClientError", "not supported")
             ELSE IF c.spc.endpoint # "" /\ t[SPC_FOREIGN_TYPE] # "foreign"
             THEN THROW(WithSpc(c, [c.spc EXCEPT !.sep_types = t]),
                        "ClientError", "must be foreign")
             ELSE WithSpc(c, [c.spc EXCEPT !.sep_types = t])
             : t \in {_get_type(v.items)}} : TRUE)

process_bool_term(c, v) ==
    IF is_boolean(v)
    THEN WithSpc(c, [c.spc EXCEPT !.bool_term = boolean(v), !.has_bool_term = TRUE])
    ELSE THROW(c, "ClientError", "must be a boolean")

process_index(c, v) ==
    IF ~is_string(v) THEN THROW(c, "ClientError", "must be string")
    ELSE IF _get_index(v.s) = {"invalid"}
    THEN THROW(WithSpc(c, [c.spc EXCEPT !.index = {"invalid"}]),
               "ClientError", "not supported")
    ELSE WithSpc(c, [c.spc EXCEPT !.index = _get_index(v.s), !.has_index = TRUE])

process_store(c, v) ==
    IF is_boolean(v)
    THEN WithSpc(c, [c.spc EXCEPT !.store = c.spc.parent_store /\ boolean(v),
                                  !.parent_store = c.spc.parent_store /\ boolean(v)])
    ELSE THROW(c, "ClientError", "must be boolean")

process_partial_paths(c, v) ==
    IF is_boolean(v) THEN WithSpc(c, [c.spc EXCEPT !.partial_paths = boolean(v)])
    ELSE THROW(c, "ClientError", "must be boolean")

process_value(c, v) ==
    IF c.spc.value.t # "none" \/ c.spc.value_rec.t # "none"
    THEN THROW(c, "ClientError", "Object already has a value")
    ELSE WithSpc(c, [c.spc EXCEPT !.value = v])

process_endpoint(c, v) ==
    IF ~is_string(v) THEN THROW(c, "ClientError", "must be string")
    ELSE IF v.s = "" THEN THROW(c, "ClientError", "must be a valid endpoint")
    ELSE IF c.spc.endpoint = v.s THEN c
    ELSE IF c.spc.sep_types[SPC_FOREIGN_TYPE] # "foreign"
            /\ (\/ c.spc.sep_types[SPC_OBJECT_TYPE] # "empty"
                \/ c.spc.sep_types[SPC_ARRAY_TYPE] # "empty"
                \/ c.spc.sep_types[SPC_CONCRETE_TYPE] # "empty")
    THEN THROW(c, "ClientError", "cannot be used in non-foreign fields")
    ELSE WithSpc(c, [c.spc EXCEPT !.static_endpoint = FALSE, !.endpoint = v.s])

process_accuracy(c, v) ==
    IF is_array(v) THEN WithSpc(c, [c.spc EXCEPT !.doc_acc = v])
    ELSE THROW(c, "ClientError", "must be array")

\* One entry of an `_accuracy` array read for a field of concrete type t:
\* whether the type accepts it and the accuracy it stands for.  `levels` tells
\* whether a geospatial level is held against HTM_MAX_LEVEL.
AccuracyItem(t, v, levels) ==
    IF t = "geo"
    THEN [ok |-> is_number(v) /\ (levels => v.n <= HTM_MAX_LEVEL), acc |-> v.n]
    ELSE IF t \in {"date", "datetime"}
    THEN (IF is_string(v)
          THEN [ok |-> _get_accuracy_datetime(v.s) # INVALID,
                acc |-> _get_accuracy_datetime(v.s)]
          ELSE IF is_number(v)
          THEN [ok |-> validate_acc_date(UnitTime(v.n)), acc |-> UnitTime(v.n)]
          ELSE [ok |-> FALSE, acc |-> INVALID])
    ELSE IF t \in {"time", "timedelta"}
    THEN (IF is_string(v)
          THEN [ok |-> _get_accuracy_time(v.s) # INVALID, acc |-> _get_accuracy_time(v.s)]
          ELSE [ok |-> FALSE, acc |-> INVALID])
    ELSE [ok |-> is_number(v), acc |-> v.n]

AccuracyTypes ==
    {"geo", "date", "datetime", "time", "timedelta", "integer", "positive", "floating"}

\* The std::set<uint64_t> set_acc filled from an `_accuracy` array.
AccuracySet(t, array, levels) ==
    IF \E i \in DOMAIN array.items : ~AccuracyItem(t, array.items[i], levels).ok
    THEN [ok |-> FALSE, set_acc |-> {}]
    ELSE [ok |-> TRUE,
          set_acc |-> {AccuracyItem(t, array.items[i], levels).acc : i \in DOMAIN array.items}]

consistency_accuracy(c, v) ==
    LET t == c.spc.sep_types[SPC_CONCRETE_TYPE]
    IN  IF ~is_array(v) THEN THROW(c, "ClientError", "must be array")
        ELSE IF t \notin AccuracyTypes
        THEN THROW(c, "ClientError", "_accuracy is not allowed in this type of fields")
        ELSE (CHOOSE the \in {
                 IF ~a.ok THEN THROW(c, "ClientError", "Data inconsistency, _accuracy")
                 ELSE IF c.spc.accuracy # Ascending(a.set_acc)
                 THEN THROW(c, "ClientError", "It is not allowed to change _accuracy")
                 ELSE c
                 : a \in {AccuracySet(t, v, FALSE)}} : TRUE)

\* consistency_date_detection ... consistency_uuid_detection
consistency_detection(c, key, v) ==
    IF ~is_boolean(v) THEN THROW(c, "ClientError", "must be boolean")
    ELSE IF c.spc[DetectionFlag(key)] # boolean(v)
    THEN THROW(c, "ClientError", "It is not allowed to change a detection flag")
    ELSE c

consistency_slot(c, v) ==
    IF ~is_number(v) THEN THROW(c, "ClientError", "must be integer")
    ELSE IF c.spc.slot # UserSlot(v.n)
    THEN THROW(c, "ClientError", "It is not allowed to change _slot")
    ELSE c

\* Only the last word of the declared string is compared, with the name of
\* the concrete type.
consistency_type(c, v) ==
    IF ~is_string(v) THEN THROW(c, "ClientError", "must be string")
    ELSE LET last == v.items[Len(v.items)]
             name == c.spc.sep_types[SPC_CONCRETE_TYPE]
         IN  IF last # name /\ ~(last = "term" /\ name = "keyword")
             THEN THROW(c, "ClientError", "It is not allowed to change _type")
             ELSE IF c.spc.endpoint # "" /\ c.spc.sep_types[SPC_FOREIGN_TYPE] # "foreign"
             THEN THROW(c, "ClientError", "must be foreign")
             ELSE c

consistency_bool_term(c, v) ==
    IF ~is_boolean(v) THEN THROW(c, "ClientError", "must be a boolean")
    ELSE IF c.spc.sep_types[SPC_CONCRETE_TYPE] # "keyword"
    THEN THROW(c, "ClientError", "only is allowed in keyword type fields")
    ELSE IF c.spc.bool_term # boolean(v)
    THEN THROW(c, "ClientError", "It is not allowed to change _bool_term")
    ELSE c

consistency_strict(c, v) ==
    IF ~is_boolean(v) THEN THROW(c, "ClientError", "must be boolean")
    ELSE IF c.spc.strict # boolean(v)
    THEN THROW(c, "ClientError", "It is not allowed to change _strict")
    ELSE c

write_index(c, ptr, v) ==
    (CHOOSE the \in {
        IF Ok(c1) THEN Assign(c1, ptr, "_index", _get_str_index(c1.spc.index)) ELSE c1
        : c1 \in {process_index(c, v)}} : TRUE)

write_store(c, ptr, v) ==
    (CHOOSE the \in {
        IF Ok(c1) THEN Assign(c1, ptr, "_store", boolean(v)) ELSE c1
        : c1 \in {process_store(c, v)}} : TRUE)

write_strict(c, ptr, v) ==
    IF is_boolean(v)
    THEN Assign(WithSpc(c, [c.spc EXCEPT !.strict = boolean(v)]), ptr, "_strict", boolean(v))
    ELSE THROW(c, "ClientError", "must be boolean")

write_partial_paths(c, ptr, v) ==
    (CHOOSE the \in {
        IF Ok(c1) THEN Assign(c1, ptr, "_partial_paths", c1.spc.partial_paths) ELSE c1
        : c1 \in {process_partial_paths(c, v)}} : TRUE)

\* write_date_detection ... write_uuid_detection
write_detection(c, ptr, key, v) ==
    IF is_boolean(v)
    THEN Assign(WithSpc(c, [c.spc EXCEPT ![DetectionFlag(key)] = boolean(v)]),
                ptr, key, boolean(v))
    ELSE THROW(c, "ClientError", "must be boolean")

write_bool_term(c, ptr, v) ==
    (CHOOSE the \in {
        IF Ok(c1) THEN Assign(c1, ptr, "_bool_term", c1.spc.bool_term) ELSE c1
        : c1 \in {process_bool_term(c, v)}} : TRUE)

----------------------------------------------------------------------------
(* Dispatch: the three planes a reserved key of the document can fall in   *)

ID_FIELD_NAME == "_id"

WriteKeys ==
    {"_index", "_store", "_strict", "_bool_term", "_partial_paths"} \cup DetectionKeys
ProcessKeys == {"_slot", "_type", "_bool_term", "_accuracy", "_acc_prefix"}
ConcreteKeys ==
    {"_index", "_store", "_value", "_endpoint", "_slot", "_type", "_bool_term", "_strict",
     "_partial_paths", "_accuracy"} \cup DetectionKeys

\* is_reserved(name): the name starts with '_'.
is_reserved(key) == key \in WriteKeys \cup ProcessKeys \cup ConcreteKeys \cup {ID_FIELD_NAME}

\* is_valid(name): a usable field name (reserved names are not).
is_valid(key) == ~is_reserved(key)

_dispatch_write_properties(c, ptr, key, v) ==
    IF key = "_index" THEN write_index(c, ptr, v)
    ELSE IF key = "_store" THEN write_store(c, ptr, v)
    ELSE IF key = "_strict" THEN write_strict(c, ptr, v)
    ELSE IF key = "_partial_paths" THEN write_partial_paths(c, ptr, v)
    ELSE IF key \in DetectionKeys THEN write_detection(c, ptr, key, v)
    ELSE write_bool_term(c, ptr, v)

\* The prefixes a document names become those of the specification.
process_acc_prefix(c, v) ==
    IF is_array(v) /\ \A i \in DOMAIN v.items : is_string(v.items[i])
    THEN WithSpc(c, [c.spc EXCEPT !.acc_prefix = [i \in DOMAIN v.items |-> v.items[i].s]])
    ELSE THROW(c, "ClientError", "must be an array of strings")

_dispatch_process_properties(c, key, v) ==
    IF key = "_slot" THEN process_slot(c, v)
    ELSE IF key = "_type" THEN process_type(c, v)
    ELSE IF key = "_accuracy" THEN process_accuracy(c, v)
    ELSE IF key = "_acc_prefix" THEN process_acc_prefix(c, v)
    ELSE process_bool_term(c, v)

_dispatch_process_concrete_properties(c, key, v) ==
    IF key = "_index" THEN process_index(c, v)
    ELSE IF key = "_store" THEN process_store(c, v)
    ELSE IF key = "_value" THEN process_value(c, v)
    ELSE IF key = "_endpoint" THEN process_endpoint(c, v)
    ELSE IF key = "_slot" THEN consistency_slot(c, v)
    ELSE IF key = "_type" THEN consistency_type(c, v)
    ELSE IF key = "_bool_term" THEN consistency_bool_term(c, v)
    ELSE IF key = "_partial_paths" THEN process_partial_paths(c, v)
    ELSE IF key = "_accuracy" THEN consistency_accuracy(c, v)
    ELSE IF key \in DetectionKeys THEN consistency_detection(c, key, v)
    ELSE consistency_strict(c, v)

\* A FieldVector filled from the front.
emplace_front(fields, key, v) == << <<key, v>> >> \o fields

\* fields.emplace_back(str_key, &value)
emplace_back(fields, key, v) == Append(fields, <<key, v>>)

\* One key of the object: the first plane (of those tried) that knows the key
\* handles it; any other key is a field.
DispatchKey(c, ptr, write, process, key, v) ==
    IF is_reserved(key) /\ write /\ key \in WriteKeys
    THEN _dispatch_write_properties(c, ptr, key, v)
    ELSE IF is_reserved(key) /\ process /\ key \in ProcessKeys
    THEN _dispatch_process_properties(c, key, v)
    ELSE IF is_reserved(key) /\ key \in ConcreteKeys
    THEN _dispatch_process_concrete_properties(c, key, v)
    ELSE [c EXCEPT !.fields = emplace_back(@, key, v)]

RECURSIVE DispatchFrom(_, _, _, _, _, _)
DispatchFrom(c, ptr, write, process, kv, i) ==
    IF i > Len(kv) \/ ~Ok(c) THEN c
    ELSE (CHOOSE the \in {
             DispatchFrom(c1, ptr, write, process, kv, i + 1)
             : c1 \in {DispatchKey(c, ptr, write, process, kv[i][1], kv[i][2])}} : TRUE)

\* Each dispatch starts with the caller's empty FieldVector.
dispatch_process_concrete_properties(c, object) ==
    (CHOOSE the \in {
        DispatchFrom(c0, Ptr("mut", <<>>), FALSE, FALSE, object.items, 1)
        : c0 \in {[c EXCEPT !.fields = <<>>]}} : TRUE)

dispatch_process_all_properties(c, object) ==
    (CHOOSE the \in {
        DispatchFrom(c0, Ptr("mut", <<>>), FALSE, TRUE, object.items, 1)
        : c0 \in {[c EXCEPT !.fields = <<>>]}} : TRUE)

dispatch_process_properties(c, object) ==
    IF c.spc.concrete THEN dispatch_process_concrete_properties(c, object)
    ELSE dispatch_process_all_properties(c, object)

dispatch_write_concrete_properties(c, ptr, object) ==
    (CHOOSE the \in {
        DispatchFrom(c0, ptr, TRUE, FALSE, object.items, 1)
        : c0 \in {[c EXCEPT !.fields = <<>>]}} : TRUE)

dispatch_write_all_properties(c, ptr, object) ==
    (CHOOSE the \in {
        DispatchFrom(c0, ptr, TRUE, TRUE, object.items, 1)
        : c0 \in {[c EXCEPT !.fields = <<>>]}} : TRUE)

dispatch_write_properties(c, ptr, object) ==
    IF c.spc.concrete THEN dispatch_write_concrete_properties(c, ptr, object)
    ELSE dispatch_write_all_properties(c, ptr, object)

----------------------------------------------------------------------------
(* Entering a field *)

\* The specification of a child fed from its persisted properties, under
\* the specification of its parent.
FedFromProperties(spc, node, meta_name) ==
    dispatch_feed_properties([spc EXCEPT !.field_found = TRUE,
                                         !.full_meta_name = Append(@, meta_name)], node)

\* A child has been fed from the cache: what the cache gave is noted next to
\* what the persisted properties give under the specification of the parent.
FedFromCache(c, fresh) ==
    [c EXCEPT !.feeds = Append(@, [cached |-> c.spc, fresh |-> fresh])]

\* Schema::feed_subproperties: `found` tells whether the child exists in the
\* tree `ptr` points into.  A node that carries a FedSpecification replaces
\* the whole specification by it, keeping only the current prefix and the
\* local uuid prefix.
feed_subproperties(c, ptr, meta_name) ==
    LET q == Append(ptr.p, meta_name)
        tree == c.trees[ptr.t]
    IN  IF ~HasNode(tree, q) THEN [c |-> c, ptr |-> ptr, found |-> FALSE]
        ELSE IF q \in DOMAIN tree.fed
        THEN [c |-> FedFromCache(
                        WithSpc(c, [spc_assign(c.spc, tree.fed[q])
                                       EXCEPT !.prefix = c.spc.prefix,
                                              !.prefix_uuid = c.spc.prefix_uuid,
                                              !.local_prefix_uuid = c.spc.local_prefix_uuid]),
                        FedFromProperties(c.spc, tree.n[q], meta_name)),
              ptr |-> Ptr(ptr.t, q), found |-> TRUE]
        ELSE (CHOOSE the \in {
                 [c |-> [WithSpc(c, s2) EXCEPT
                            !.trees[ptr.t].fed = (q :> spc_copy(s2)) @@ @],
                  ptr |-> Ptr(ptr.t, q), found |-> TRUE]
                 : s2 \in {FedFromProperties(c.spc, tree.n[q], meta_name)}} : TRUE)

\* Schema::update_prefixes under index_uuid_field = both (the default): the
\* local prefix joins the prefix; on a uuid path the uuid prefix, started
\* from the field prefix at the first uuid field, follows it with the local
\* uuid prefix of a uuid field and the local prefix of any other.  Under
\* partial_paths the stack of partial prefixes grows (the whole prefix first,
\* local prefixes after it), otherwise it is cleared.
update_prefixes(spc) ==
    (CHOOSE the \in {
        [spc EXCEPT !.prefix = prefix,
                    !.prefix_uuid =
                        IF ~spc.uuid_path THEN @
                        ELSE IF spc.uuid_field
                        THEN Append(IF @ = <<>> THEN spc.prefix ELSE @, spc.local_prefix_uuid)
                        ELSE IF @ # <<>> THEN Append(@, spc.local_prefix)
                        ELSE @,
                    !.partial_prefixes =
                        IF ~spc.partial_paths THEN <<>>
                        ELSE IF Len(@) = 0 THEN <<prefix>>
                        ELSE Append(@, <<spc.local_prefix>>)]
        : prefix \in {Append(spc.prefix, spc.local_prefix)}} : TRUE)

\* Schema::verify_dynamic: the name of the uuid field marks a uuid path, any
\* other name is the name of the field.
verify_dynamic(spc, field_name) ==
    IF field_name = UUID_FIELD_NAME
    THEN [spc EXCEPT !.meta_name = UUID_FIELD_NAME, !.uuid_field = TRUE, !.uuid_path = TRUE]
    ELSE [spc EXCEPT !.local_prefix = get_prefix(field_name), !.meta_name = field_name,
                     !.uuid_field = FALSE]

\* Schema::detect_dynamic: a name that serialises as a UUID is the uuid
\* field, with the serialised UUID as its local uuid prefix; any other name
\* (Serialise::uuid throwing SerialisationError included) is the field.
detect_dynamic(spc, field_name) ==
    IF possiblyUUID(field_name) /\ SerialiseUUID(field_name) # ""
    THEN [spc EXCEPT !.local_prefix_uuid = SerialiseUUID(field_name),
                     !.local_prefix = get_prefix(UUID_FIELD_NAME),
                     !.meta_name = UUID_FIELD_NAME,
                     !.uuid_field = TRUE, !.uuid_path = TRUE]
    ELSE [spc EXCEPT !.local_prefix = get_prefix(field_name), !.meta_name = field_name,
                     !.uuid_field = FALSE]

set_default_spc_id(c, ptr) ==
    (CHOOSE the \in {
    (CHOOSE the \in {
    (CHOOSE the \in {
        WithSpc(c2, [c2.spc EXCEPT
            !.sep_types[SPC_CONCRETE_TYPE] = IF @ \in {"text", "string"} THEN "keyword" ELSE @,
            !.local_prefix = DOCUMENT_ID_TERM_PREFIX,
            !.slot = DB_SLOT_ID])
        : c2 \in {IF s1.has_index THEN c1
         ELSE IF s1.index # s1.index \cup FIELD_ALL
         THEN Assign(WithSpc(c1, [s1 EXCEPT !.index = s1.index \cup FIELD_ALL,
                                            !.has_index = TRUE]),
                     ptr, "_index", _get_str_index(s1.index \cup FIELD_ALL))
         ELSE WithSpc(c1, [s1 EXCEPT !.has_index = TRUE])}} : TRUE)
        : c1 \in {Assign(WithSpc(c, s1), ptr, "_bool_term", TRUE)}} : TRUE)
        : s1 \in {[c.spc EXCEPT !.bool_term = TRUE, !.has_bool_term = TRUE]}} : TRUE)

dispatch_set_default_spc(c, ptr) ==
    IF c.spc.full_meta_name = <<ID_FIELD_NAME>> THEN set_default_spc_id(c, ptr) ELSE c

\* Schema::add_field, with the object of the field (has_object) or without.
add_field(c, ptr, object, has_object) ==
    (CHOOSE the \in {
    (CHOOSE the \in {
    (CHOOSE the \in {
        IF ~Ok(c2) THEN c2
        ELSE (CHOOSE the \in {
             (CHOOSE the \in {
                 WithSpc(c4, update_prefixes(c4.spc))
                 : c4 \in {Assign(c3, child, "_prefix", c3.spc.local_prefix)}} : TRUE)
                 : c3 \in {dispatch_set_default_spc(c2, child)}} : TRUE)
        : c2 \in {IF has_object THEN dispatch_write_all_properties(c1, child, object) ELSE c1}} : TRUE)
        : c1 \in {WithSpc([c EXCEPT !.trees[ptr.t] = GetPath(@, child.p, 1)],
                 [c.spc EXCEPT !.field_found = IF has_object THEN FALSE ELSE @,
                               !.full_meta_name = Append(@, c.spc.meta_name)])}} : TRUE)
        : child \in {Ptr(ptr.t, Append(ptr.p, c.spc.meta_name))}} : TRUE)

\* data->insert(field_name) under the store flag: a field inserted twice at
\* position 0 is a duplicate; `data` then points at the entry of the field.
DataInsert(c, pos, field_name) ==
    IF ~Ok(c) \/ ~c.spc.store THEN c
    ELSE (CHOOSE the \in {
         IF entry \in DOMAIN c.data
         THEN (IF pos = 0 THEN THROW(c, "ClientError", "Field is duplicated")
               ELSE [c EXCEPT !.dptr = entry])
         ELSE [c EXCEPT !.data = (entry :> Undefined) @@ @, !.dptr = entry]
             : entry \in {Append(c.dptr, field_name)}} : TRUE)

LogField(c) ==
    IF Ok(c) THEN [c EXCEPT !.log = Append(@, [op |-> "field", spc |-> c.spc, value |-> NoValue])]
    ELSE c

\* The field is entered: its stored entry is opened and the entry is logged.
Entered(c, ptr, pos, field_name) ==
    (CHOOSE the \in {[c |-> LogField(c1), ptr |-> ptr]
        : c1 \in {DataInsert(c, pos, field_name)}} : TRUE)

\* The lookup every *_subproperties overload makes for a field name:
\* feed_subproperties(properties, field_name) and, when the child is not
\* there, the dynamic detection of the name (verify_dynamic when a schema is
\* written, detect_dynamic otherwise) followed, for a uuid field, by
\* feed_subproperties(properties, specification.meta_name).  `direct` tells
\* that the child was found under the name itself.
feed_field(c, ptr, field_name, writing) ==
    (CHOOSE the \in {
    (CHOOSE the \in {
    (CHOOSE the \in {[c |-> f.c, ptr |-> f.ptr, found |-> f.found, direct |-> direct,
                     data_name |-> IF ~direct /\ s.uuid_field
                                   THEN normalize_uuid(field_name) ELSE field_name]
        : f \in {feed_subproperties(WithSpc(c, s), ptr,
                            IF ~direct /\ s.uuid_field THEN s.meta_name ELSE field_name)}} : TRUE)
        : s \in {IF direct THEN c.spc
         ELSE IF writing THEN verify_dynamic(c.spc, field_name)
         ELSE detect_dynamic(c.spc, field_name)}} : TRUE)
        : direct \in {HasNode(c.trees[ptr.t], Append(ptr.p, field_name))}} : TRUE)

\* Schema::index_subproperties for a field name of one segment: returns the
\* context and the properties pointer of the field.
index_subproperties(c, ptr, name, object, has_object, pos) ==
    IF ~is_valid(name) /\ ~(c.spc.full_meta_name = <<>> /\ name = ID_FIELD_NAME)
    THEN [c |-> THROW(c, "ClientError", "Field is not valid"), ptr |-> ptr]
    ELSE (CHOOSE the \in {
         IF f.found
         THEN (CHOOSE the \in {
              (CHOOSE the \in {Entered(c2, f.ptr, pos, f.data_name)
                  : c2 \in {IF Ok(c1) THEN WithSpc(c1, update_prefixes(c1.spc)) ELSE c1}} : TRUE)
                  : c1 \in {IF has_object THEN dispatch_process_properties(f.c, object) ELSE f.c}} : TRUE)
         ELSE (CHOOSE the \in {
              (CHOOSE the \in {
                  Entered(c1, Ptr(m.ptr.t, Append(m.ptr.p, f.c.spc.meta_name)), pos,
                          f.data_name)
                  : c1 \in {add_field(m.c, m.ptr, object, has_object)}} : TRUE)
                  : m \in {get_mutable_properties(f.c, f.c.spc.full_meta_name)}} : TRUE)
             : f \in {feed_field(WithSpc(c, restart_specification(c.spc)), ptr, name,
                         FALSE)}} : TRUE)

----------------------------------------------------------------------------
(* Terms and values of a leaf *)

\* A serialised value: numbers serialise by their value whatever the numeric
\* type (zero is "\x80"), strings by their bytes.
MkSer(k, n, s, len) == [k |-> k, n |-> n, s |-> s, len |-> len]
NoSer == MkSer("", 0, "", 0)

\* Numbers are kept in halves, so that a float can lie between two integers.
NumVal(v) == IF v.t = "pos" THEN 2 * v.n ELSE IF v.t = "neg" THEN 0 - 2 * v.n ELSE v.n

SerialiseNumber(v) == MkSer("num", NumVal(v), "", IF NumVal(v) = 0 THEN 1 ELSE 2)
SerialiseString(v) == MkSer("str", 0, v.s, v.len)
SerialiseBool(b) == MkSer("bool", IF b THEN 1 ELSE 0, "", 1)

\* The string classes the detection and the serialisers tell apart, on the
\* strings the documents use.
isUUID(str) == str = "~uuid" \/ str \in UUIDForms
isDate(str) == str \in {"2016-10-25"}
isDatetime(str) == str \in {"2016-10-25T12:30:00"}
isTime(str) == str \in {"12:30:00"}
isTimedelta(str) == str \in {"+12:30:00"}

\* The geometries the documents use: the HTM ranges that cover each (sorted,
\* disjoint and not adjacent) and its centroids.
GeoShapes ==
    [ewkt \in {"POINT(1 1)", "POINT(2 2)", "CIRCLE(1 1, 9)"} |->
        IF ewkt = "POINT(1 1)" THEN [ranges |-> << <<10, 10>> >>, centroids |-> <<"c1">>]
        ELSE IF ewkt = "POINT(2 2)"
        THEN [ranges |-> << <<11, 11>> >>, centroids |-> <<"c2">>]
        ELSE [ranges |-> << <<8, 10>>, <<14, 15>> >>, centroids |-> <<"c1">>]]

isEWKT(str) == str \in DOMAIN GeoShapes
getRanges(ewkt) == GeoShapes[ewkt].ranges
getCentroids(ewkt) == GeoShapes[ewkt].centroids

\* The trixels of a list of ranges, and the ranges of a set of trixels.
Trixels(ranges) == UNION {ranges[i][1] .. ranges[i][2] : i \in DOMAIN ranges}

RECURSIVE RangesOf(_)
RangesOf(trixels) ==
    IF trixels = {} THEN <<>>
    ELSE (CHOOSE the \in {
         (CHOOSE the \in {
             << <<start, end>> >> \o RangesOf(trixels \ (start .. end))
             : end \in {CHOOSE e \in trixels : (start .. e) \subseteq trixels /\ e + 1 \notin trixels}} : TRUE)
             : start \in {CHOOSE x \in trixels : \A y \in trixels : x <= y}} : TRUE)

\* HTM::range_union
range_union(ranges, prev) == RangesOf(Trixels(ranges) \cup Trixels(prev))

\* Serialise::ranges_centroids, Unserialise::ranges_centroids and
\* Serialise::ranges_hash.
SerialiseRangesCentroids(ranges, centroids) ==
    MkSer("geo", 0, <<ranges, centroids>>, 2 * Len(ranges) + Len(centroids))
UnserialiseRangesCentroids(ser) == [ranges |-> ser.s[1], centroids |-> ser.s[2]]
SerialiseRangesHash(ranges) == MkSer("hash", 0, ranges, 1)

\* Serialise::datetime and the serialisers of time and timedelta.
SerialiseDate(v) == MkSer("date", 0, v.s, 2)

SelectMissing(prev_centroids, centroids) ==
    SelectSeq(prev_centroids, LAMBDA x : x \notin SeqToSet(centroids))

\* The set of a slot, were the centroids it held added without a look at
\* the new ones.
merge_appended(set, ranges, centroids) ==
    IF set = {} THEN {MkSer("geo", 0, <<ranges, centroids>>, 2 * Len(ranges) + Len(centroids))}
    ELSE {MkSer("geo", 0, <<ranges, centroids \o (CHOOSE x \in set : TRUE).s[2]>>, 0)}

\* Schema::merge_geospatial_values on the set of a slot.
merge_geospatial_values(set, ranges, centroids) ==
    IF set = {} THEN {SerialiseRangesCentroids(ranges, centroids)}
    ELSE (CHOOSE the \in {
             {SerialiseRangesCentroids(
                 range_union(ranges, prev_value.ranges),
                 centroids \o SelectMissing(prev_value.centroids, centroids))}
             : prev_value \in {UnserialiseRangesCentroids(CHOOSE x \in set : TRUE)}} : TRUE)

\* strings::inplace_lower on the strings the documents use.
lower(s) == IF s = "Abc" THEN "abc" ELSE s

\* strings::hasupper on the field names the documents use.
hasupper(name) == name \in {"K"}

\* prefixed(value, prefix, ctype): prefix bytes, the type byte, the value.
\* Every prefix token counts for one byte.
prefixed(ser, prefix, ctype) ==
    [prefix |-> prefix, ctype |-> ctype, ser |-> ser,
     size |-> Len(prefix) + 1 + ser.len, generated |-> FALSE]

PrefixTerm(prefix) ==
    [prefix |-> prefix, ctype |-> "", ser |-> NoSer, size |-> Len(prefix),
     generated |-> FALSE]

\* "QN\x80": the id prefix, the numeric type byte and the serialised zero.
SentinelTerm == prefixed(MkSer("num", 0, "", 1), <<DOCUMENT_ID_TERM_PREFIX>>, "N")

MAX_TERM_SIZE == 245

index_simple_term_unchecked(c, term, field_spc) ==
    IF field_spc.position # 0
    THEN [c EXCEPT !.doc.postings = @ \cup {term}]
    ELSE [c EXCEPT !.doc.terms = @ \cup {term}]

index_simple_term(c, term, field_spc) ==
    IF term.size > MAX_TERM_SIZE
    THEN (IF field_spc.sep_types[SPC_CONCRETE_TYPE] = "keyword"
          THEN THROW(c, "ClientError", "Keyword too long")
          ELSE c)
    ELSE IF term = SentinelTerm THEN c
    ELSE IF field_spc.position # 0
    THEN [c EXCEPT !.doc.postings = @ \cup {term}]
    ELSE [c EXCEPT !.doc.terms = @ \cup {term}]

\* Schema::index_term: text and string go through the Xapian term generator
\* (its terms are marked `generated`), every other type through
\* index_simple_term; a keyword is lowercased unless it is a boolean term.
index_term(c, ser, field_spc) ==
    LET t == field_spc.sep_types[SPC_CONCRETE_TYPE]
    IN  IF t \in {"string", "text"}
        THEN [c EXCEPT !.doc.terms = @ \cup
                {[prefixed(ser, field_spc.prefix, get_ctype(t)) EXCEPT !.generated = TRUE]}]
        ELSE IF t = "keyword" /\ ~field_spc.bool_term
        THEN (CHOOSE the \in {index_simple_term(c, term, field_spc)
                 : term \in {prefixed([ser EXCEPT !.s = lower(@)], field_spc.prefix, get_ctype(t))}} : TRUE)
        ELSE (CHOOSE the \in {index_simple_term(c, term, field_spc)
                 : term \in {prefixed(ser, field_spc.prefix, get_ctype(t))}} : TRUE)

MvInsert(c, slot, sers) ==
    [c EXCEPT !.mv = (slot :> ((IF slot \in DOMAIN @ THEN @[slot] ELSE {}) \cup sers)) @@ @,
              !.added = @ \cup {<<slot, ser>> : ser \in sers}]

\* s_f.insert(ser) and s_g.insert(ser): the value joins each of the slots.
RECURSIVE MvInsertAll(_, _, _)
MvInsertAll(c, slots, ser) ==
    IF slots = <<>> THEN c
    ELSE MvInsertAll(MvInsert(c, Head(slots), {ser}), Tail(slots), ser)

\* specification_t::global_type on the types of the model.
global_type(field_type) == IF field_type = "string" THEN "text" ELSE field_type

\* The slot of the global specification of a type.
DB_SLOT(field_type) ==
    MkSlot("global", <<>>,
           IF field_type \in {"floating", "integer", "positive"} THEN "NUMERIC"
           ELSE IF field_type = "boolean" THEN "BOOLEAN"
           ELSE IF field_type \in {"date", "datetime"} THEN "DATE"
           ELSE IF field_type = "time" THEN "TIME"
           ELSE IF field_type = "timedelta" THEN "TIMEDELTA"
           ELSE IF field_type = "geo" THEN "GEO"
           ELSE IF field_type = "uuid" THEN "UUID"
           ELSE "STRING", 0)

\* The accuracy of the global specification of a type.
global_accuracy(field_type) ==
    IF field_type \in {"floating", "integer", "positive"} THEN def_accuracy_num
    ELSE IF field_type \in {"date", "datetime"} THEN def_accuracy_datetime
    ELSE IF field_type \in {"time", "timedelta"} THEN def_accuracy_time
    ELSE IF field_type = "geo" THEN def_accuracy_geo
    ELSE default_spc.accuracy

\* specification_t::get_global: the precomputed specification of a type; it
\* has no prefix of a field, and a string is a text there.
get_global(field_type) ==
    [default_spc EXCEPT
        !.sep_types = [EmptyTypes EXCEPT ![SPC_CONCRETE_TYPE] = global_type(field_type)],
        !.slot = DB_SLOT(field_type),
        !.accuracy = global_accuracy(field_type),
        !.acc_prefix = get_acc_prefix(global_accuracy(field_type))]

\* The specification a pointer gives, and the null pointer.
nullptr == {}
Pointee(ptr) == CHOOSE spc \in ptr : TRUE

\* The term of a checked value is indexed for the field and for the global
\* specification (where the pointer is given), and the serialised value
\* joins the slots (keep).
EmitValue(c, ser, slots, field_spc, global_spc, keep) ==
    (CHOOSE the \in {
    (CHOOSE the \in {
        IF Ok(c2) /\ keep THEN MvInsertAll(c2, slots, ser) ELSE c2
        : c2 \in {IF Ok(c1) /\ global_spc # nullptr
         THEN index_term(c1, ser, Pointee(global_spc)) ELSE c1}} : TRUE)
        : c1 \in {IF field_spc # nullptr THEN index_term(c, ser, Pointee(field_spc)) ELSE c}} : TRUE)

\* merge_geospatial_values on the set of one slot.
MergeInto(c, slot, ranges, centroids) ==
    (CHOOSE the \in {
        [c EXCEPT !.mv = (slot :> merged) @@ @,
                  !.added = @ \cup {<<slot, ser>> : ser \in merged}]
        : merged \in {merge_geospatial_values(IF slot \in DOMAIN c.mv THEN c.mv[slot] ELSE {},
                                 ranges, centroids)}} : TRUE)

RECURSIVE MergeIntoAll(_, _, _, _)
MergeIntoAll(c, slots, ranges, centroids) ==
    IF slots = <<>> THEN c
    ELSE MergeIntoAll(MergeInto(c, Head(slots), ranges, centroids), Tail(slots),
                      ranges, centroids)

\* The geo case of index_value and of index_all_value: the hash of the
\* ranges is the term, the ranges and the centroids are merged into the
\* single element of each slot.
index_geo_value(c, value, slots, field_spc, global_spc) ==
    IF ~is_string(value) \/ ~isEWKT(value.s)
    THEN THROW(c, "GeoSpatialError", "Invalid geometry")
    ELSE (CHOOSE the \in {
         (CHOOSE the \in {
             IF ~Ok(c1) THEN c1
             ELSE MergeIntoAll(c1, slots, ranges, getCentroids(value.s))
             : c1 \in {EmitValue(c, SerialiseRangesHash(ranges), slots, field_spc, global_spc,
                        FALSE)}} : TRUE)
             : ranges \in {getRanges(value.s)}} : TRUE)

\* Serialise::boolean takes a boolean and the strings that spell one.
isBoolean(value) ==
    is_boolean(value) \/ (is_string(value) /\ value.s \in {"true", "false"})
BooleanOf(value) == IF is_boolean(value) THEN boolean(value) ELSE value.s = "true"

\* The string classes a date or time type takes.
SuitsDateType(t, str) ==
    IF t \in {"date", "datetime"} THEN isDate(str) \/ isDatetime(str)
    ELSE IF t = "time" THEN isTime(str)
    ELSE isTimedelta(str)

\* Schema::index_value: the type of `spc` checks the value, then the value is
\* emitted: its term for the specifications given, its serialisation into
\* the slots.
index_value(c, value, slots, spc, field_spc, global_spc) ==
    LET t == spc.sep_types[SPC_CONCRETE_TYPE]
    IN  IF t \in {"floating", "integer", "positive"}
        THEN (IF ~is_number(value) THEN THROW(c, "ClientError", "Format invalid")
              ELSE IF t = "positive" /\ value.t = "neg"
              THEN THROW(c, "type_error", "negative value read as unsigned")
              ELSE EmitValue(c, SerialiseNumber(value), slots, field_spc, global_spc, TRUE))
        ELSE IF t = "keyword"
        THEN (IF is_string(value)
              THEN EmitValue(c, SerialiseString(value), slots, field_spc, global_spc, TRUE)
              ELSE THROW(c, "ClientError", "Format invalid"))
        ELSE IF t \in {"string", "text"}
        THEN (IF is_string(value)
              THEN EmitValue(c, SerialiseString(value), slots, field_spc, global_spc,
                             value.len <= 100)
              ELSE THROW(c, "ClientError", "Format invalid"))
        ELSE IF t = "boolean"
        THEN (IF isBoolean(value)
              THEN EmitValue(c, SerialiseBool(BooleanOf(value)), slots, field_spc, global_spc, TRUE)
              ELSE THROW(c, "SerialisationError", "Boolean format is not valid"))
        ELSE IF t = "uuid"
        THEN (IF is_string(value) /\ isUUID(value.s)
              THEN EmitValue(c, SerialiseString(value), slots, field_spc, global_spc, TRUE)
              ELSE THROW(c, "SerialisationError", "Invalid UUID format"))
        ELSE IF t \in DateTypes
        THEN (IF is_string(value) /\ SuitsDateType(t, value.s)
              THEN EmitValue(c, SerialiseDate(value), slots, field_spc, global_spc, TRUE)
              ELSE THROW(c, "DatetimeError", "Format invalid"))
        ELSE IF t = "geo" THEN index_geo_value(c, value, slots, field_spc, global_spc)
        ELSE THROW(c, "ClientError", "is an unknown type")

\* index_all_value with the terms of both specifications whatever the index.
all_terms_always(c, value, field_spc, global_spc) ==
    index_value(c, value, <<field_spc.slot, global_spc.slot>>, field_spc,
                {field_spc}, {global_spc})

\* Schema::index_all_value: index_value for the field, with the terms the
\* index of the field asks for and the value in both slots.
index_all_value(c, value, field_spc, global_spc) ==
    index_value(c, value, <<field_spc.slot, global_spc.slot>>, field_spc,
                IF "field_terms" \in field_spc.index THEN {field_spc} ELSE nullptr,
                IF "global_terms" \in field_spc.index THEN {global_spc} ELSE nullptr)

\* Serialise::MsgPack(spc, value) followed by index_term for `term_spc`, as
\* the terms-only index modes use it: the value must suit the concrete type
\* of `spc`.
index_serialised_term(c, value, spc, term_spc) ==
    LET t == spc.sep_types[SPC_CONCRETE_TYPE]
    IN  IF t \in {"floating", "integer", "positive"} /\ is_number(value)
        THEN index_term(c, SerialiseNumber(value), term_spc)
        ELSE IF t \in {"keyword", "string", "text"} /\ is_string(value)
        THEN index_term(c, SerialiseString(value), term_spc)
        ELSE IF t = "uuid" /\ is_string(value) /\ isUUID(value.s)
        THEN index_term(c, SerialiseString(value), term_spc)
        ELSE IF t = "boolean" /\ isBoolean(value)
        THEN index_term(c, SerialiseBool(BooleanOf(value)), term_spc)
        ELSE IF t \in DateTypes /\ is_string(value) /\ SuitsDateType(t, value.s)
        THEN index_term(c, SerialiseDate(value), term_spc)
        ELSE IF t = "geo" /\ is_string(value) /\ isEWKT(value.s)
        THEN index_term(c, SerialiseRangesHash(getRanges(value.s)), term_spc)
        ELSE THROW(c, "SerialisationError", "value does not suit the type")

\* Schema::index_all_term: the term of the value for the field and for the
\* global specification.
index_all_term(c, value, field_spc, global_spc) ==
    (CHOOSE the \in {
        IF Ok(c1) THEN index_serialised_term(c1, value, field_spc, global_spc) ELSE c1
        : c1 \in {index_serialised_term(c, value, field_spc, field_spc)}} : TRUE)

\* Schema::_index_item for one value, by index mode: `s_f` and `s_g` are the
\* sets of the slot of the field and of the global slot of its type, which
\* a mode with values creates; a null value gives the term of the prefix of
\* the field in the modes with field terms and nothing in the others.
_index_item(c, value) ==
    LET spc == c.spc
        global_spc == get_global(spc.sep_types[SPC_CONCRETE_TYPE])
        null == is_null(value) \/ is_undefined(value)
        s_f == MvInsert(c, spc.slot, {})
        s_g == MvInsert(c, global_spc.slot, {})
        s_fg == MvInsert(MvInsert(c, global_spc.slot, {}), spc.slot, {})
        null_term == index_simple_term(c, PrefixTerm(spc.prefix), spc)
        null_s_f == index_simple_term(s_f, PrefixTerm(spc.prefix), spc)
        null_s_g == index_simple_term(s_g, PrefixTerm(spc.prefix), spc)
        null_s_fg == index_simple_term(s_fg, PrefixTerm(spc.prefix), spc)
    IN  CASE spc.index = INDEX_NONE -> c
        [] spc.index = FIELD_TERMS ->
             IF null THEN null_term ELSE index_serialised_term(c, value, spc, spc)
        [] spc.index = FIELD_VALUES ->
             IF null THEN s_f
             ELSE index_value(s_f, value, <<spc.slot>>, spc, nullptr, nullptr)
        [] spc.index = FIELD_ALL ->
             IF null THEN null_s_f
             ELSE index_value(s_f, value, <<spc.slot>>, spc, {spc}, nullptr)
        [] spc.index = GLOBAL_TERMS ->
             IF null THEN c ELSE index_serialised_term(c, value, global_spc, global_spc)
        [] spc.index = TERMS ->
             IF null THEN null_term ELSE index_all_term(c, value, spc, global_spc)
        [] spc.index = GLOBAL_TERMS \cup FIELD_VALUES ->
             IF null THEN s_f
             ELSE index_value(s_f, value, <<spc.slot>>, spc, nullptr, {global_spc})
        [] spc.index = GLOBAL_TERMS \cup FIELD_ALL ->
             IF null THEN null_s_f
             ELSE index_value(s_f, value, <<spc.slot>>, spc, {spc}, {global_spc})
        [] spc.index = GLOBAL_VALUES ->
             IF null THEN s_g
             ELSE index_value(s_g, value, <<global_spc.slot>>, global_spc, nullptr, nullptr)
        [] spc.index = GLOBAL_VALUES \cup FIELD_TERMS ->
             IF null THEN null_s_g
             ELSE index_value(s_g, value, <<global_spc.slot>>, global_spc, {spc}, nullptr)
        [] spc.index = VALUES ->
             IF null THEN s_fg ELSE index_all_value(s_fg, value, spc, global_spc)
        [] spc.index = GLOBAL_VALUES \cup FIELD_ALL ->
             IF null THEN null_s_fg ELSE index_all_value(s_fg, value, spc, global_spc)
        [] spc.index = GLOBAL_ALL ->
             IF null THEN s_g
             ELSE index_value(s_g, value, <<global_spc.slot>>, global_spc, nullptr,
                              {global_spc})
        [] spc.index = GLOBAL_ALL \cup FIELD_TERMS ->
             IF null THEN null_s_g
             ELSE index_value(s_g, value, <<global_spc.slot>>, global_spc, {spc},
                              {global_spc})
        [] spc.index = GLOBAL_ALL \cup FIELD_VALUES ->
             IF null THEN s_fg ELSE index_all_value(s_fg, value, spc, global_spc)
        [] spc.index = INDEX_ALL ->
             IF null THEN null_s_fg ELSE index_all_value(s_fg, value, spc, global_spc)
        [] OTHER -> c

\* What MsgPack::push_back gives on a value that is neither undefined nor an
\* array.
TypeError == MkVal("type_error", 0, "", 0, <<>>)

\* MsgPack::push_back: an undefined value becomes an array of the one item,
\* an array grows by the item, any other value refuses (msgpack::type_error).
push_back(data_value, v) ==
    IF is_undefined(data_value) THEN Arr(<<v>>)
    ELSE IF is_array(data_value) THEN Arr(Append(data_value.items, v))
    ELSE TypeError

RECURSIVE push_all(_, _, _)
push_all(data_value, items, i) ==
    IF i > Len(items) \/ data_value = TypeError THEN data_value
    ELSE push_all(push_back(data_value, items[i]), items, i + 1)

\* Datetime::iso8601(Datetime::DatetimeParser(value)): a date gets its time
\* of day, a datetime is in this form already.
iso8601(value) ==
    IF is_string(value) /\ value.s = "2016-10-25" THEN Str("2016-10-25T00:00:00", 19)
    ELSE value

\* The form a value is stored in: normalize_uuid(value) for a uuid field, the
\* ISO 8601 form for a date or datetime field, the value itself otherwise.
StoredForm(t, value) ==
    IF t = "uuid" /\ is_string(value) THEN Str(normalize_uuid(value.s), value.len)
    ELSE IF t \in {"date", "datetime"} THEN iso8601(value)
    ELSE value

StoredForms(t, values) == [i \in DOMAIN values |-> StoredForm(t, values[i])]

\* Schema::index_item(doc, value, data, pos, add_value), "Add value to
\* data": the three branches by type have the same switch on data_value.
AddValue(data_value, t, value) ==
    IF is_undefined(data_value) THEN StoredForm(t, value)
    ELSE IF is_array(data_value) THEN push_back(data_value, StoredForm(t, value))
    ELSE Arr(<<data_value, StoredForm(t, value)>>)

\* data_value.push_back(MsgPack({ data_value, iso })) for each value.
RECURSIVE push_pairs(_, _, _)
push_pairs(data_value, forms, i) ==
    IF i > Len(forms) \/ data_value = TypeError THEN data_value
    ELSE push_pairs(push_back(data_value, Arr(<<data_value, forms[i]>>)), forms, i + 1)

\* Schema::index_item(doc, values, data, add_values), "Add value to data".
AddValues(data_value, t, values) ==
    IF t = "uuid"
    THEN (IF is_undefined(data_value) THEN push_all(Arr(<<>>), StoredForms(t, values.items), 1)
          ELSE IF is_array(data_value)
          THEN push_all(data_value, StoredForms(t, values.items), 1)
          ELSE push_all(Arr(<<data_value>>), StoredForms(t, values.items), 1))
    ELSE IF t \in {"date", "datetime"}
    THEN (IF is_undefined(data_value) \/ is_array(data_value)
          THEN push_all(data_value, StoredForms(t, values.items), 1)
          ELSE push_pairs(data_value, StoredForms(t, values.items), 1))
    ELSE (IF is_undefined(data_value) THEN values
          ELSE IF is_array(data_value) THEN push_all(data_value, values.items, 1)
          ELSE push_all(Arr(<<data_value>>), values.items, 1))

\* data[RESERVED_VALUE] of the entry `data` points at.
DataValue(c) == IF c.dptr \in DOMAIN c.data THEN c.data[c.dptr] ELSE Undefined

\* The value joins the stored data of the field under the store flag.
StoreItems(c, spc, value, added) ==
    IF ~Ok(c) THEN c
    ELSE (CHOOSE the \in {
         IF ~spc.store THEN c2
         ELSE IF added = TypeError THEN THROW(c2, "type_error", "msgpack::type_error")
         ELSE [c2 EXCEPT !.data = (c.dptr :> added) @@ @]
             : c2 \in {[c EXCEPT !.log = Append(@, [op |-> "index_item", spc |-> spc,
                                           value |-> value, before |-> DataValue(c),
                                           after |-> added])]}} : TRUE)

\* Schema::index_item: index the value, then add it to the stored data
\* (add_value).
index_item(c, value, add_value) ==
    (CHOOSE the \in {
        IF add_value
        THEN StoreItems(c1, c.spc, value,
                        AddValue(DataValue(c1), c.spc.sep_types[SPC_CONCRETE_TYPE], value))
        ELSE c1
        : c1 \in {_index_item(c, value)}} : TRUE)

\* Schema::get_partial_paths without uuid fields: the first prefix, any
\* selection of the middle ones in their order, and the last prefix.  No
\* document nests deeper than the depth limit get_partial_paths enforces.
RECURSIVE PathOf(_, _, _)
PathOf(partial_prefixes, S, i) ==
    IF i > Len(partial_prefixes) THEN <<>>
    ELSE (IF i \in S THEN partial_prefixes[i] ELSE <<>>) \o PathOf(partial_prefixes, S, i + 1)

get_partial_paths(partial_prefixes) ==
    {PathOf(partial_prefixes, S \cup {1, Len(partial_prefixes)}, 1) :
        S \in SUBSET (2..(Len(partial_prefixes) - 1))}

\* Schema::index_partial_paths: under partial_paths a field that indexes
\* field terms adds its partial paths (or its prefix) as boolean terms.
index_partial_paths(c) ==
    IF Ok(c) /\ c.spc.partial_paths /\ "field_terms" \in c.spc.index
    THEN [c EXCEPT !.doc.bterms = @ \cup
            (IF Len(c.spc.partial_prefixes) > 2
             THEN {PrefixTerm(path) : path \in get_partial_paths(c.spc.partial_prefixes)}
             ELSE {PrefixTerm(c.spc.prefix)})]
    ELSE c

----------------------------------------------------------------------------
(* Completing the specification of a field at its first value *)

\* What kind of string a document string is, for type detection.
StrKind(v) ==
    IF v.s = "~uuid" THEN "uuid"
    ELSE IF v.s \in {"true", "false"} THEN "bool"
    ELSE "plain"

\* The type of a value, were the detection flags not looked at.
guess_unflagged(c, item_doc) ==
    WithSpc(c, [c.spc EXCEPT !.sep_types[SPC_CONCRETE_TYPE] =
        IF item_doc.t = "pos" THEN "positive"
        ELSE IF item_doc.t = "neg" THEN "integer"
        ELSE IF item_doc.t = "float" THEN "floating"
        ELSE IF item_doc.t = "bool" THEN "boolean"
        ELSE IF isUUID(item_doc.s) THEN "uuid"
        ELSE IF isDate(item_doc.s) THEN "date"
        ELSE IF isDatetime(item_doc.s) THEN "datetime"
        ELSE IF isTime(item_doc.s) THEN "time"
        ELSE IF isTimedelta(item_doc.s) THEN "timedelta"
        ELSE IF isEWKT(item_doc.s) THEN "geo"
        ELSE IF item_doc.s \in {"true", "false"} THEN "boolean"
        ELSE IF ~c.spc.bool_term THEN "text"
        ELSE "keyword"])

\* The type of a value, were the class of a string not looked at.
guess_unclassed(c, item_doc) ==
    WithSpc(c, [c.spc EXCEPT !.sep_types[SPC_CONCRETE_TYPE] =
        IF item_doc.t = "pos" THEN "positive"
        ELSE IF item_doc.t = "neg" THEN "integer"
        ELSE IF item_doc.t = "float" THEN "floating"
        ELSE IF item_doc.t = "bool" THEN "boolean"
        ELSE IF ~c.spc.bool_term THEN "text"
        ELSE "keyword"])

guess_field_type(c, item_doc) ==
    LET spc == c.spc
        Set(t) == WithSpc(c, [c.spc EXCEPT !.sep_types[SPC_CONCRETE_TYPE] = t])
        ambiguous == THROW(c, "ClientError", "_value is ambiguous")
    IN  IF item_doc.t = "pos"
        THEN (IF spc.numeric_detection THEN Set("positive") ELSE ambiguous)
        ELSE IF item_doc.t = "neg"
        THEN (IF spc.numeric_detection THEN Set("integer") ELSE ambiguous)
        ELSE IF item_doc.t = "float"
        THEN (IF spc.numeric_detection THEN Set("floating") ELSE ambiguous)
        ELSE IF item_doc.t = "bool"
        THEN (IF spc.bool_detection THEN Set("boolean") ELSE ambiguous)
        ELSE IF item_doc.t = "str"
        THEN (IF spc.uuid_detection /\ isUUID(item_doc.s) THEN Set("uuid")
              ELSE IF spc.date_detection /\ isDate(item_doc.s) THEN Set("date")
              ELSE IF spc.datetime_detection /\ isDatetime(item_doc.s) THEN Set("datetime")
              ELSE IF spc.time_detection /\ isTime(item_doc.s) THEN Set("time")
              ELSE IF spc.timedelta_detection /\ isTimedelta(item_doc.s)
              THEN Set("timedelta")
              ELSE IF spc.geo_detection /\ isEWKT(item_doc.s) THEN Set("geo")
              ELSE IF spc.bool_detection /\ item_doc.s \in {"true", "false"}
              THEN Set("boolean")
              ELSE IF spc.text_detection /\ ~spc.bool_term THEN Set("text")
              ELSE Set("keyword"))
        ELSE IF item_doc.t = "map"
        THEN THROW(c, "ClientError", "_value cannot be a nested object")
        ELSE IF item_doc.t = "array"
        THEN THROW(c, "ClientError", "_value cannot be a nested array")
        ELSE ambiguous

\* The type guessed for a value is logged with the flags it was guessed under.
Guessed(c, item_doc) ==
    (CHOOSE the \in {
        IF Ok(g)
        THEN [g EXCEPT !.log = Append(@, [op |-> "guess", spc |-> g.spc, value |-> item_doc])]
        ELSE g
        : g \in {guess_field_type(c, item_doc)}} : TRUE)

\* The default accuracy table validate_required_data takes for a type.
DefaultAccuracy(t) ==
    IF t = "geo" THEN def_accuracy_geo
    ELSE IF t \in {"date", "datetime"} THEN def_accuracy_datetime
    ELSE IF t \in {"time", "timedelta"} THEN def_accuracy_time
    ELSE def_accuracy_num

\* set_acc: filled only for a type with accuracies whose terms are indexed,
\* from the `_accuracy` of the document when it gave one, from the default
\* table of the type otherwise.
RequiredAccuracy(spc) ==
    LET t == spc.sep_types[SPC_CONCRETE_TYPE]
    IN  IF t \notin AccuracyTypes \/ "field_terms" \notin spc.index
        THEN [ok |-> TRUE, set_acc |-> {}]
        ELSE IF spc.doc_acc # NoValue THEN AccuracySet(t, spc.doc_acc, TRUE)
        ELSE [ok |-> TRUE, set_acc |-> SeqToSet(DefaultAccuracy(t))]

\* RESERVED_ACCURACY and RESERVED_ACC_PREFIX of a field with accuracies: the
\* date and time types persist the names of the units.
WriteAccuracy(c, ptr, set_acc) ==
    (CHOOSE the \in {
    (CHOOSE the \in {
    (CHOOSE the \in {
    (CHOOSE the \in {
         Assign(c2, ptr, "_acc_prefix", acc_prefix)
        : c2 \in {Assign(c1, ptr, "_accuracy",
                [i \in DOMAIN accuracy |->
                    IF c.spc.sep_types[SPC_CONCRETE_TYPE] \in DateTypes
                    THEN Str(_get_str_acc_date(accuracy[i]), 1)
                    ELSE Pos(accuracy[i])])}} : TRUE)
        : c1 \in {WithSpc(c, [c.spc EXCEPT !.accuracy = accuracy, !.acc_prefix = acc_prefix])}} : TRUE)
        : acc_prefix \in {get_acc_prefix(accuracy)}} : TRUE)
        : accuracy \in {Ascending(set_acc)}} : TRUE)

\* The requirements of the concrete type, were the name of a keyword not read.
RequiredUnnamed(c0, ptr) == WithSpc(c0, [c0.spc EXCEPT !.concrete = TRUE])

\* The requirements of the concrete type: a keyword gets its `_bool_term`, a
\* script its `_index`, and the field becomes concrete.
RequiredByType(c0, ptr) ==
    LET t == c0.spc.sep_types[SPC_CONCRETE_TYPE]
    IN  IF t = "keyword" /\ ~c0.spc.has_bool_term
        THEN (CHOOSE the \in {
                 IF c0.spc.bool_term # s.bool_term
                 THEN Assign(WithSpc(c0, s), ptr, "_bool_term", s.bool_term)
                 ELSE WithSpc(c0, s)
                 : s \in {[c0.spc EXCEPT !.bool_term = hasupper(c0.spc.meta_name),
                                 !.has_bool_term = TRUE, !.concrete = TRUE]}} : TRUE)
        ELSE IF t = "script" /\ ~c0.spc.has_index
        THEN (CHOOSE the \in {
                 IF c0.spc.index # INDEX_NONE
                 THEN Assign(WithSpc(c0, s), ptr, "_index", "none")
                 ELSE WithSpc(c0, s)
                 : s \in {[c0.spc EXCEPT !.index = INDEX_NONE, !.has_index = TRUE,
                                 !.concrete = TRUE]}} : TRUE)
        ELSE WithSpc(c0, [c0.spc EXCEPT !.concrete = (t # "empty")])

\* A field under partial paths that declares no `_index` falls back to
\* indexing anything but values.
RequiredIndex(c, ptr) ==
    IF ~c.spc.has_index /\ Len(c.spc.partial_prefixes) > 0
    THEN (CHOOSE the \in {
             IF c.spc.index # s.index
             THEN Assign(WithSpc(c, s), ptr, "_index", _get_str_index(s.index))
             ELSE WithSpc(c, s)
             : s \in {[c.spc EXCEPT !.index = @ \ FIELD_VALUES, !.has_index = TRUE]}} : TRUE)
    ELSE c

\* The slot of a field whose values are indexed, and then its accuracies.
RequiredSlot(c1, ptr, set_acc) ==
    IF c1.spc.index # INDEX_NONE /\ c1.spc.concrete /\ "field_values" \in c1.spc.index
    THEN (CHOOSE the \in {
         (CHOOSE the \in {
             IF set_acc = {} THEN c2 ELSE WriteAccuracy(c2, ptr, set_acc)
             : c2 \in {Assign(WithSpc(c1, [c1.spc EXCEPT !.slot = slot]), ptr, "_slot", slot)}} : TRUE)
             : slot \in {IF c1.spc.slot = BAD_VALUENO
              THEN get_slot(c1.spc.prefix, get_ctype(c1.spc.sep_types[SPC_CONCRETE_TYPE]))
              ELSE c1.spc.slot}} : TRUE)
    ELSE c1

\* Schema::validate_required_data: fix the per-type requirements, the slot
\* and the `_type` of the field in the draft.
validate_required_data(c, ptr) ==
    (CHOOSE the \in {
    (CHOOSE the \in {
        IF ~a.ok THEN THROW(c0, "ClientError", "Data inconsistency, _accuracy")
        ELSE
    (CHOOSE the \in {
    (CHOOSE the \in {
    (CHOOSE the \in {
        IF ~StrTypeSupported(c2.spc.sep_types)
        THEN THROW(c2, "ClientError", "_type not supported")
        ELSE Assign(c2, ptr, "_type", _get_str_type(c2.spc.sep_types))
        : c2 \in {RequiredSlot(c1i, ptr, a.set_acc)}} : TRUE)
        : c1i \in {RequiredIndex(c1, ptr)}} : TRUE)
        : c1 \in {RequiredByType(c0, ptr)}} : TRUE)
        : a \in {RequiredAccuracy(c0.spc)}} : TRUE)
        : c0 \in {dispatch_set_default_spc(c, ptr)}} : TRUE)

\* validate_required_data(get_mutable_properties(specification.full_meta_name))
ValidateMutable(c) ==
    (CHOOSE the \in {
        validate_required_data(m.c, m.ptr)
        : m \in {get_mutable_properties(c, c.spc.full_meta_name)}} : TRUE)

\* Schema::set_type_to_object / set_type_to_array: the structural type is
\* added to the specification and the `_type` of the field is rewritten.
SetStructuralType(c, i, t) ==
    IF ~Ok(c) \/ c.spc.sep_types[i] # "empty" THEN c
    ELSE (CHOOSE the \in {
         (CHOOSE the \in {
             IF ~StrTypeSupported(s.sep_types)
             THEN THROW(m.c, "ClientError", "_type not supported")
             ELSE Assign(m.c, m.ptr, "_type", _get_str_type(s.sep_types))
             : m \in {get_mutable_properties(WithSpc(c, s), s.full_meta_name)}} : TRUE)
             : s \in {[c.spc EXCEPT !.sep_types[i] = t]}} : TRUE)

set_type_to_object(c) == SetStructuralType(c, SPC_OBJECT_TYPE, "object")

set_type_to_array(c) == SetStructuralType(c, SPC_ARRAY_TYPE, "array")

MissingType(c) == THROW(c, "MissingTypeError", "Type of field is missing")

\* The index specifications of a field on a uuid path under index_uuid_field
\* = both: one under the field prefix with the slot of the field, one under
\* the uuid prefix with the slot of that prefix; without field values they
\* carry no slot.
uuid_index_spcs(spc) ==
    IF ~spc.uuid_path THEN {}
    ELSE (CHOOSE the \in {
         IF "field_values" \in spc.index
         THEN {[type |-> t, prefix |-> spc.prefix, slot |-> spc.slot],
               [type |-> t, prefix |-> spc.prefix_uuid,
                slot |-> get_slot(spc.prefix_uuid, get_ctype(t))]}
         ELSE {[type |-> t, prefix |-> spc.prefix, slot |-> BAD_VALUENO],
               [type |-> t, prefix |-> spc.prefix_uuid, slot |-> BAD_VALUENO]}
             : t \in {spc.sep_types[SPC_CONCRETE_TYPE]}} : TRUE)

\* The second half of complete_specification: more than two partial prefixes
\* give one index specification per partial path other than the prefix of
\* the field itself (a namespace specification, with the slot of the path,
\* when values are indexed); a uuid path adds its index specifications, and
\* the specification is complete.  UUID-named fields are met at the root
\* only, where no partial path has more than two prefixes.
Complete_partials(c) ==
    IF ~Ok(c) THEN c
    ELSE IF Len(c.spc.partial_prefixes) <= 2
    THEN WithSpc(c, [c.spc EXCEPT !.complete = TRUE,
                                  !.partial_index_spcs = @ \cup uuid_index_spcs(c.spc)])
    ELSE IF c.spc.sep_types[SPC_CONCRETE_TYPE] = "empty" /\ "field_values" \notin c.spc.index
    THEN THROW(c, "ClientError", "is an unknown type")
    ELSE (CHOOSE the \in {
         WithSpc(c, [c.spc EXCEPT !.complete = TRUE,
            !.partial_index_spcs = @ \cup
                {IF "field_values" \in c.spc.index
                 THEN [type |-> t, prefix |-> path, slot |-> get_slot(path, get_ctype(t))]
                 ELSE [type |-> global_type(t), prefix |-> path, slot |-> BAD_VALUENO] :
                 path \in get_partial_paths(c.spc.partial_prefixes) \ {c.spc.prefix}}])
             : t \in {c.spc.sep_types[SPC_CONCRETE_TYPE]}} : TRUE)

\* The end of the first half of complete_specification: the concrete type,
\* when there is one, is validated and written.
Completed(c2) ==
    IF Ok(c2) /\ c2.spc.sep_types[SPC_CONCRETE_TYPE] # "empty"
    THEN ValidateMutable(c2) ELSE c2

complete_specification_guessing(c, item_value) ==
    (CHOOSE the \in {Complete_partials(c3)
        : c3 \in {IF c.spc.concrete THEN c
         ELSE
         (CHOOSE the \in {
         (CHOOSE the \in {Completed(c2)
             : c2 \in {IF c1.spc.sep_types[SPC_CONCRETE_TYPE] = "empty"
                 /\ c.spc.sep_types[SPC_FOREIGN_TYPE] # "foreign"
              THEN Guessed(c1, item_value)
              ELSE c1}} : TRUE)
             : c1 \in {IF c.spc.sep_types[SPC_FOREIGN_TYPE] # "foreign" /\ c.spc.endpoint # ""
              THEN WithSpc(c, [c.spc EXCEPT !.sep_types[SPC_FOREIGN_TYPE] = "foreign"])
              ELSE c}} : TRUE)}} : TRUE)

\* Schema::complete_specification: a field that is not concrete yet gets its
\* type from the declaration, or from the value unless the field is strict.
complete_specification(c, item_value) ==
    (CHOOSE the \in {Complete_partials(c3)
        : c3 \in {IF c.spc.concrete THEN c
         ELSE
         (CHOOSE the \in {
         (CHOOSE the \in {Completed(c2)
             : c2 \in {IF Ok(c1) /\ c1.spc.sep_types[SPC_CONCRETE_TYPE] = "empty"
                 /\ c.spc.sep_types[SPC_FOREIGN_TYPE] # "foreign"
              THEN (IF c1.spc.strict THEN MissingType(c1)
                    ELSE Guessed(c1, item_value))
              ELSE c1}} : TRUE)
             : c1 \in {IF c.spc.sep_types[SPC_FOREIGN_TYPE] # "foreign" /\ c.spc.endpoint # ""
              THEN (IF c.spc.strict THEN MissingType(c)
                    ELSE WithSpc(c, [c.spc EXCEPT !.sep_types[SPC_FOREIGN_TYPE] = "foreign"]))
              ELSE c}} : TRUE)}} : TRUE)

Complete(c, item_value) ==
    IF c.spc.complete THEN c ELSE complete_specification(c, item_value)

RECURSIVE IndexItems(_, _, _)
IndexItems(c, values, i) ==
    IF i > Len(values) \/ ~Ok(c) THEN c
    ELSE (CHOOSE the \in {IndexItems(c1, values, i + 1)
             : c1 \in {_index_item(c, values[i])}} : TRUE)

\* Schema::index_item for an array of values.
index_item_values(c, values, add_values) ==
    (CHOOSE the \in {
    (CHOOSE the \in {
        IF add_values
        THEN StoreItems(c1, c0.spc, values,
                        AddValues(DataValue(c1), c0.spc.sep_types[SPC_CONCRETE_TYPE], values))
        ELSE c1
        : c1 \in {IndexItems(c0, values.items, 1)}} : TRUE)
        : c0 \in {set_type_to_array(c)}} : TRUE)

\* The value is indexed under each of the index specifications (in the
\* order the set of paths gives) and stored with the first.
RECURSIVE IndexPartialSpcs(_, _, _, _)
IndexPartialSpcs(c, spcs, value, add_value) ==
    IF spcs = {} \/ ~Ok(c) THEN c
    ELSE (CHOOSE the \in {
         (CHOOSE the \in {
         (CHOOSE the \in {IndexPartialSpcs(c2, spcs \ {s}, value, FALSE)
             : c2 \in {IF is_array(value) THEN index_item_values(c0, value, add_value)
              ELSE index_item(c0, value, add_value)}} : TRUE)
             : c0 \in {WithSpc(c, [c.spc EXCEPT !.sep_types[SPC_CONCRETE_TYPE] = s.type,
                                       !.prefix = s.prefix, !.slot = s.slot])}} : TRUE)
             : s \in {CHOOSE s \in spcs : TRUE}} : TRUE)

\* index_item(...) of the index_item_value overloads: under the field's own
\* concrete type, prefix and slot, or under the index specifications of the
\* partial paths in their place, after which the field's own are put back.
index_item_partials(c, value) ==
    (CHOOSE the \in {
    (CHOOSE the \in {
        IF Ok(c1) /\ c.spc.partial_index_spcs # {}
        THEN WithSpc(c1, [c1.spc EXCEPT !.sep_types[SPC_CONCRETE_TYPE] = own.type,
                                        !.prefix = own.prefix, !.slot = own.slot])
        ELSE c1
        : c1 \in {IndexPartialSpcs(c, IF c.spc.partial_index_spcs = {} THEN {own}
                             ELSE c.spc.partial_index_spcs, value, TRUE)}} : TRUE)
        : own \in {[type |-> c.spc.sep_types[SPC_CONCRETE_TYPE], prefix |-> c.spc.prefix,
          slot |-> c.spc.slot]}} : TRUE)

StoreValue(c, value) ==
    IF c.spc.store
    THEN [c EXCEPT !.data = (c.dptr :> value) @@ @]
    ELSE c

StoreEndpoint(c) ==
    IF Ok(c) /\ c.spc.sep_types[SPC_FOREIGN_TYPE] = "foreign" /\ ~c.spc.static_endpoint
    THEN [c EXCEPT !.data = (Append(c.dptr, "_endpoint")
                                :> Str(c.spc.endpoint, 0)) @@ @]
    ELSE c

FirstValid(items) ==
    LET S == {i \in DOMAIN items : ~(is_null(items[i]) \/ is_undefined(items[i]))}
    IN  IF S = {} THEN 0 ELSE CHOOSE i \in S : \A j \in S : i <= j

\* Schema::index_item_value(doc, data, item_value): the value of a `_value`.
index_item_value_item(c, item_value) ==
    (CHOOSE the \in {
        IF is_null(item_value) \/ is_undefined(item_value)
              \/ (is_array(item_value) /\ first = 0)
        THEN (CHOOSE the \in {
                 IF Ok(c1) THEN StoreValue(index_partial_paths(c1), item_value) ELSE c1
                 : c1 \in {IF ~c.spc.concrete /\ c.spc.sep_types[SPC_CONCRETE_TYPE] # "empty"
                  THEN ValidateMutable(c) ELSE c}} : TRUE)
        ELSE (CHOOSE the \in {
                 IF ~Ok(c2) THEN c2
                 ELSE (CHOOSE the \in {
                          StoreEndpoint(c3)
                          : c3 \in {index_item_partials(c2, item_value)}} : TRUE)
                 : c2 \in {Complete(c, IF is_array(item_value) THEN item_value.items[first]
                              ELSE item_value)}} : TRUE)
        : first \in {IF is_array(item_value) THEN FirstValid(item_value.items) ELSE 0}} : TRUE)

\* Schema::index_item_value(doc, data, item_value, pos): a plain leaf value.
index_item_value_pos(c, item_value) ==
    (CHOOSE the \in {
    (CHOOSE the \in {
        IF Ok(c2) /\ c2.spc.sep_types[SPC_CONCRETE_TYPE] = "empty"
             /\ c2.spc.sep_types[SPC_OBJECT_TYPE] = "empty"
             /\ c2.spc.sep_types[SPC_ARRAY_TYPE] = "empty"
        THEN set_type_to_object(c2)
        ELSE c2
        : c2 \in {IF Ok(c1) THEN index_item_partials(c1, item_value) ELSE c1}} : TRUE)
        : c1 \in {Complete(c, item_value)}} : TRUE)

----------------------------------------------------------------------------
(* The traversal of a document *)

Restrict(f, S) == [x \in S |-> f[x]]

IsUnder(q, p) == Len(q) > Len(p) /\ SubSeq(q, 1, Len(p)) = p

\* The stored entry of a field that got no value and no child is erased.
DataCollapse(c) ==
    IF Ok(c) /\ c.spc.store /\ c.dptr \in DOMAIN c.data
       /\ is_undefined(c.data[c.dptr])
       /\ ~\E q \in DOMAIN c.data : IsUnder(q, c.dptr)
    THEN [c EXCEPT !.data = Restrict(@, DOMAIN @ \ {c.dptr})]
    ELSE c

\* specification = spc_start, when no exception is in flight.
Restore(c, spc_start) ==
    IF Ok(c) THEN WithSpc(c, spc_assign(c.spc, spc_start)) ELSE c

\* The end of a field: its empty stored entry is erased, the specification
\* the field started with is restored and `data` of the field goes out of
\* scope, leaving `parent_data`.
Leave(c, start) ==
    (CHOOSE the \in {[Restore(c1, start.spc) EXCEPT !.dptr = start.dptr]
        : c1 \in {DataCollapse(c)}} : TRUE)

\* The foreign type an `_endpoint` implies for a field that is not concrete.
imply_foreign(c) ==
    IF ~c.spc.concrete /\ c.spc.sep_types[SPC_FOREIGN_TYPE] # "foreign" /\ c.spc.endpoint # ""
    THEN (IF c.spc.strict THEN MissingType(c)
          ELSE WithSpc(c, [c.spc EXCEPT !.sep_types[SPC_FOREIGN_TYPE] = "foreign"]))
    ELSE c

AllTypesEmpty(spc) ==
    /\ spc.sep_types[SPC_CONCRETE_TYPE] = "empty"
    /\ spc.sep_types[SPC_OBJECT_TYPE] = "empty"
    /\ spc.sep_types[SPC_ARRAY_TYPE] = "empty"

\* The `_value` of the object (or the value received), indexed; without a
\* value a declared type is validated and written.
index_value_of_object(c1) ==
    (CHOOSE the \in {
        IF val.t # "none"
        THEN (IF c1.spc.sep_types[SPC_FOREIGN_TYPE] = "foreign"
              THEN THROW(c1, "ClientError", "foreign type cannot have a value")
              ELSE index_item_value_item(c1, val))
        ELSE IF ~c1.spc.concrete /\ c1.spc.sep_types[SPC_CONCRETE_TYPE] # "empty"
        THEN ValidateMutable(c1)
        ELSE c1
        : val \in {IF c1.spc.value.t # "none" THEN c1.spc.value ELSE c1.spc.value_rec}} : TRUE)

RECURSIVE index_object(_, _, _, _)
RECURSIVE index_array(_, _, _, _)
RECURSIVE index_item_value(_, _, _)
\* The specification the i-th child (field of an object, item of an array)
\* starts from, next to the one the parent had before its first child.
Started(c, spc_parent, i) ==
    [c EXCEPT !.starts = Append(@, [spc |-> c.spc, parent |-> spc_parent, pos |-> i])]

RECURSIVE IndexFields(_, _, _, _, _)
RECURSIVE IndexArrayItems(_, _, _, _, _, _)

\* Schema::index_item_value(properties, doc, data, fields): the object of a
\* field once its reserved keys are dispatched.
index_item_value(c, ptr, fields) ==
    (CHOOSE the \in {
        IF ~Ok(c1) THEN c1
        ELSE (CHOOSE the \in {
             IF ~Ok(c2) THEN c2
             ELSE IF Len(fields) = 0
             THEN (CHOOSE the \in {
                      IF AllTypesEmpty(c3.spc) THEN set_type_to_object(c3) ELSE c3
                      : c3 \in {IF c1.spc.value.t = "none" /\ c1.spc.value_rec.t = "none"
                       THEN index_partial_paths(c2) ELSE c2}} : TRUE)
             ELSE IF c2.spc.sep_types[SPC_FOREIGN_TYPE] = "foreign"
             THEN THROW(c2, "ClientError", "foreign type cannot have extra fields")
             ELSE (CHOOSE the \in {
                      IndexFields(c3, ptr, fields, 1, c3.spc)
                      : c3 \in {set_type_to_object(c2)}} : TRUE)
                 : c2 \in {index_value_of_object(c1)}} : TRUE)
        : c1 \in {imply_foreign(c)}} : TRUE)

\* for (field : fields) { specification = spc_object; index_object(...); }
IndexFields(c, ptr, fields, i, spc_object) ==
    IF i > Len(fields) \/ ~Ok(c) THEN c
    ELSE (CHOOSE the \in {
         (CHOOSE the \in {
             IndexFields(c1, ptr, fields, i + 1, spc_object)
             : c1 \in {index_object(c0, ptr, fields[i][2], fields[i][1])}} : TRUE)
             : c0 \in {Started(WithSpc(c, spc_assign(c.spc, spc_object)), spc_object, i)}} : TRUE)

\* Schema::index_object: one field of the parent, by the kind of its value.
index_object(c, pptr, object, name) ==
    IF is_valid(name) /\ ~c.spc.recurse
    THEN (IF c.spc.store
          THEN [c EXCEPT !.data = (Append(c.dptr, name) :> object) @@ @]
          ELSE c)
    ELSE IF is_map(object)
    THEN (CHOOSE the \in {
         (CHOOSE the \in {Leave(c1, c)
             : c1 \in {IF Ok(r.c) THEN index_item_value(r.c, r.ptr, r.c.fields) ELSE r.c}} : TRUE)
             : r \in {index_subproperties(c, pptr, name, object, TRUE, 0)}} : TRUE)
    ELSE IF is_array(object) THEN index_array(c, pptr, object, name)
    ELSE (CHOOSE the \in {
         (CHOOSE the \in {Leave(c1, c)
             : c1 \in {IF Ok(r.c) /\ ~(is_null(object) \/ is_undefined(object))
              THEN index_item_value_pos(r.c, object) ELSE index_partial_paths(r.c)}} : TRUE)
             : r \in {index_subproperties(c, pptr, name, Nil, FALSE, 0)}} : TRUE)

\* The names of the positions of a stored array.
PosNames == <<"0", "1", "2", "3">>

\* data_pos = &data->get(pos) under the store flag: the entry of the item.
DataPos(c, pos) ==
    IF ~c.spc.store THEN c
    ELSE [c EXCEPT !.data = (Append(c.dptr, PosNames[pos + 1]) :> Undefined) @@ @,
                   !.dptr = Append(c.dptr, PosNames[pos + 1])]

\* Schema::index_array: every item enters the field again from the parent's
\* properties and the specification the array started with.
index_array(c, pptr, array, name) ==
    IF Len(array.items) = 0
    THEN (CHOOSE the \in {
             IF Ok(c1) /\ c1.spc.store
             THEN [c1 EXCEPT !.data = (Append(c1.dptr, name) :> Arr(<<>>)) @@ @]
             ELSE c1
             : c1 \in {set_type_to_array(c)}} : TRUE)
    ELSE IndexArrayItems(c, pptr, array.items, name, 1, c.spc)

IndexArrayItems(c00, pptr, items, name, i, spc_start) ==
    IF i > Len(items) \/ ~Ok(c00) THEN c00
    ELSE (CHOOSE the \in {
         (CHOOSE the \in {
         (CHOOSE the \in {
         (CHOOSE the \in {
         (CHOOSE the \in {
         (CHOOSE the \in {
             IndexArrayItems(c3, pptr, items, name, i + 1, spc_start)
             : c3 \in {[Restore(c2, spc_start) EXCEPT !.dptr = c.dptr]}} : TRUE)
             : c2 \in {IF ~Ok(c1) THEN c1
              ELSE IF is_map(item) THEN index_item_value(c1, r.ptr, r.c.fields)
              ELSE IF is_array(item) THEN index_item_value_item(c1, item)
              ELSE IF is_null(item) \/ is_undefined(item)
              THEN StoreValue(index_partial_paths(c1), item)
              ELSE index_item_value_pos(c1, item)}} : TRUE)
             : c1 \in {IF Ok(r.c) THEN set_type_to_array(DataPos(r.c, i - 1)) ELSE r.c}} : TRUE)
             : r \in {IF is_map(item)
              THEN index_subproperties(c, pptr, name, item, TRUE, i - 1)
              ELSE index_subproperties(c, pptr, name, Nil, FALSE, i - 1)}} : TRUE)
             : c \in {Started(c00, spc_start, i)}} : TRUE)
             : item \in {items[i]}} : TRUE)

----------------------------------------------------------------------------
(* The document id *)

\* required_spc_t as far as the id uses it.
default_spc_id ==
    [type |-> "empty", slot |-> DB_SLOT_ID, prefix |-> <<DOCUMENT_ID_TERM_PREFIX>>,
     bool_term |-> FALSE, err |-> ""]

\* The reserved keys of a document map, in the form tree nodes hold them.
DocProps(v) ==
    [key \in {v.items[i][1] : i \in DOMAIN v.items} |->
        LET x == At(v, key)
        IN  IF key = "_type" THEN x.items
            ELSE IF key = "_slot" THEN UserSlot(x.n)
            ELSE IF key = "_prefix" THEN x.s
            ELSE IF key = "_bool_term" THEN boolean(x)
            ELSE x]

\* required_spc_t::get_types as _get_data_id uses it: a string that names no
\* type is rejected.
IdType(spc_id, words) ==
    (CHOOSE the \in {
        IF t = EmptyTypes THEN [spc_id EXCEPT !.err = "ClientError"]
        ELSE [spc_id EXCEPT !.type = t[SPC_CONCRETE_TYPE]]
        : t \in {_get_type(words)}} : TRUE)

\* _get_data_id: the prefix is read under the test of `_slot`; every node
\* and document here that has a `_slot` has a `_prefix`.
_get_data_id(spc_id, id_properties) ==
    LET K == DOMAIN id_properties
    IN  (CHOOSE the \in {
        (CHOOSE the \in {
        (CHOOSE the \in {
            IF s3.type = "keyword" /\ "_bool_term" \in K
            THEN [s3 EXCEPT !.bool_term = id_properties["_bool_term"]]
            ELSE s3
            : s3 \in {IF "_slot" \in K /\ "_prefix" \in K
             THEN [s2 EXCEPT !.prefix = <<id_properties["_prefix"]>>] ELSE s2}} : TRUE)
            : s2 \in {IF "_slot" \in K THEN [s1 EXCEPT !.slot = id_properties["_slot"]] ELSE s1}} : TRUE)
            : s1 \in {IF "_type" \in K THEN IdType(spc_id, id_properties["_type"]) ELSE spc_id}} : TRUE)

\* The id specification, were the `_id` node of the schema not read.
get_data_id_unread(c) == default_spc_id

\* Schema::get_data_id: the `_id` node of the newest properties.
get_data_id(c) ==
    LET tree == c.trees[get_newest_properties(c).t]
    IN  IF HasNode(tree, <<ID_FIELD_NAME>>)
        THEN _get_data_id(default_spc_id, tree.n[<<ID_FIELD_NAME>>])
        ELSE default_spc_id

\* Schema::set_data_id: the id specification is written to the draft.
set_data_id(c, spc_id) ==
    (CHOOSE the \in {
    (CHOOSE the \in {
    (CHOOSE the \in {
    (CHOOSE the \in {
        IF spc_id.type = "keyword" THEN Assign(c3, m.ptr, "_bool_term", spc_id.bool_term)
        ELSE c3
        : c3 \in {Assign(c2, m.ptr, "_prefix", spc_id.prefix[1])}} : TRUE)
        : c2 \in {Assign(c1, m.ptr, "_slot", spc_id.slot)}} : TRUE)
        : c1 \in {Assign(m.c, m.ptr, "_type", <<ConcreteWord(spc_id.type, FALSE)>>)}} : TRUE)
        : m \in {get_mutable_properties(c, <<ID_FIELD_NAME>>)}} : TRUE)

\* Serialise::guess_serialise: the type a value would be detected as.
guess_type(v) ==
    IF v.t = "pos" THEN "positive"
    ELSE IF v.t = "neg" THEN "integer"
    ELSE IF v.t = "float" THEN "floating"
    ELSE IF v.t = "bool" THEN "boolean"
    ELSE IF StrKind(v) = "uuid" THEN "uuid"
    ELSE IF StrKind(v) = "bool" THEN "boolean"
    ELSE "text"

NumStr(n) == IF n = 0 THEN "0" ELSE IF n = 1 THEN "1" ELSE "n"

\* Cast::cast(type, value): the value as the type wants it, Undefined when
\* the value cannot be cast.
cast(type, v) ==
    IF type \in {"integer", "positive", "floating"}
    THEN (IF is_number(v) THEN v ELSE Undefined)
    ELSE IF type \in {"keyword", "text", "string"}
    THEN (IF is_string(v) THEN v
          ELSE IF v.t = "pos" THEN Str(NumStr(v.n), 1) ELSE Undefined)
    ELSE IF type = "uuid"
    THEN (IF is_string(v) /\ StrKind(v) = "uuid" THEN v ELSE Undefined)
    ELSE Undefined

\* Serialise::serialise(spc_id, value).
serialise(v) ==
    IF is_number(v) THEN SerialiseNumber(v)
    ELSE IF is_boolean(v) THEN SerialiseBool(boolean(v))
    ELSE SerialiseString(v)

\* The ids the generators give: one UUID, one base64 string.
GeneratedUUID == Str("~uuid", 16)
GeneratedKeyword == Str("~b64", 22)

NoTerm == PrefixTerm(<<>>)

\* The outcome of the id switches: the context, whether the properties
\* pointer was set to the draft's root, the id and its term.
Resolved(c, moved, id, ser, spc) ==
    [c |-> c, moved |-> moved, document_id |-> id,
     term_id |-> prefixed(ser, spc.prefix, get_ctype(spc.type))]

\* The id type is detected and written to the draft.
DetectedId(c, spc, id, ser) ==
    (CHOOSE the \in {Resolved(c1, TRUE, id, ser, spc)
        : c1 \in {set_data_id(c, spc)}} : TRUE)

\* The id of the document and its term (Schema::index, the two switches on
\* the id type).
resolve_id(c, spc_id, document_id) ==
    LET Fail(kind, msg) ==
            [c |-> THROW(c, kind, msg), moved |-> FALSE, document_id |-> document_id,
             term_id |-> NoTerm]
    IN  IF document_id.t = "none"
        THEN (IF spc_id.type = "empty"
              THEN DetectedId(c, [spc_id EXCEPT !.type = "uuid"], GeneratedUUID,
                              serialise(GeneratedUUID))
              ELSE IF spc_id.type = "uuid"
              THEN Resolved(c, FALSE, GeneratedUUID, serialise(GeneratedUUID), spc_id)
              ELSE IF spc_id.type \in {"integer", "positive", "floating"}
              THEN Resolved(c, FALSE, Pos(0), serialise(Pos(0)), spc_id)
              ELSE IF spc_id.type \in {"text", "string", "keyword"}
              THEN Resolved(c, FALSE, GeneratedKeyword, serialise(GeneratedKeyword), spc_id)
              ELSE Fail("ClientError", "Invalid datatype for _id"))
        ELSE IF spc_id.type = "empty"
        THEN (CHOOSE the \in {
                 DetectedId(c, [spc_id EXCEPT !.type = t, !.bool_term = TRUE],
                            cast(t, document_id), serialise(document_id))
                 : t \in {IF guess_type(document_id) \in {"text", "string"} THEN "keyword"
                  ELSE guess_type(document_id)}} : TRUE)
        ELSE IF spc_id.type \in {"uuid", "integer", "positive", "floating",
                                 "text", "string", "keyword"}
        THEN (CHOOSE the \in {
                 IF is_undefined(id) THEN Fail("CastError", "Type cannot be cast")
                 ELSE Resolved(c, FALSE, id, serialise(id), spc_id)
                 : id \in {cast(spc_id.type, document_id)}} : TRUE)
        ELSE Fail("ClientError", "Invalid datatype for _id")

\* The `_id` field joins the fields of the document with the id as its value.
add_id_field(fields, document_id) ==
    LET k == Find(fields, ID_FIELD_NAME)
    IN  IF k = 0 THEN Append(fields, <<ID_FIELD_NAME, document_id>>)
        ELSE IF is_map(fields[k][2])
        THEN LET kv == fields[k][2].items
                 j == Find(kv, "_value")
                 kv2 == IF j = 0 THEN Append(kv, <<"_value", document_id>>)
                        ELSE [kv EXCEPT ![j] = <<"_value", document_id>>]
             IN  [fields EXCEPT ![k] = <<ID_FIELD_NAME, Map(kv2)>>]
        ELSE [fields EXCEPT ![k] = <<ID_FIELD_NAME, document_id>>]

\* catch (...) { mut_schema.reset(); throw; }
catch_rethrow(c) == c

catch_reset(c) == [c EXCEPT !.trees.mut = NoDraft, !.dropped = ~c.trees.mut.null]

\* The first lines of index, update and write.
start_specification(spc) ==
    [spc_assign(spc, default_spc) EXCEPT !.slot = DB_SLOT_ROOT]

\* dispatch_feed_properties(*properties) on the specification of the call.
feed_root(c, props) ==
    WithSpc(c, dispatch_feed_properties(c.spc, NodeOf(c, props)))

\* The root object of a call against the newest properties: written when the
\* properties are empty, fed and processed otherwise.
enter_root(c, object) ==
    (CHOOSE the \in {
        IF NodeEmpty(c.trees[props.t], <<>>)
        THEN (CHOOSE the \in {
             (CHOOSE the \in {
                 [c |-> c1, ptr |-> m.ptr]
                 : c1 \in {dispatch_write_properties(m.c, m.ptr, object)}} : TRUE)
                 : m \in {get_mutable_properties(
                      WithSpc(c, [c.spc EXCEPT !.field_found = FALSE]), <<>>)}} : TRUE)
        ELSE (CHOOSE the \in {
             (CHOOSE the \in {
                 [c |-> c1, ptr |-> props]
                 : c1 \in {dispatch_process_properties(c0, object)}} : TRUE)
                 : c0 \in {feed_root(c, props)}} : TRUE)
        : props \in {get_newest_properties(c)}} : TRUE)

\* The id specification of the call: the `_id` node of the newest properties
\* and then the `_id` object of the document.
id_specification(c, fields) ==
    (CHOOSE the \in {
    (CHOOSE the \in {
        IF spc0.err = "" /\ k # 0 /\ is_map(fields[k][2])
        THEN _get_data_id(spc0, DocProps(fields[k][2]))
        ELSE spc0
        : k \in {Find(fields, ID_FIELD_NAME)}} : TRUE)
        : spc0 \in {get_data_id(c)}} : TRUE)

index_fields_and_id_always(id, properties, fields) ==
    IF ~Ok(id.c) THEN id.c
    ELSE (CHOOSE the \in {
         (CHOOSE the \in {
             IF ~Ok(c1) THEN c1
             ELSE [c1 EXCEPT !.doc.bterms = @ \cup {id.term_id}]
             : c1 \in {index_item_value(id.c, properties, all)}} : TRUE)
             : all \in {add_id_field(fields, id.document_id)}} : TRUE)

\* The fields of the root are indexed and the boolean term of the id is
\* added to the document.
index_fields_and_id(id, properties, fields) ==
    IF ~Ok(id.c) THEN id.c
    ELSE (CHOOSE the \in {
         (CHOOSE the \in {
             IF ~Ok(c1) THEN c1
             ELSE IF id.term_id # SentinelTerm
             THEN [c1 EXCEPT !.doc.values = c1.mv, !.doc.bterms = @ \cup {id.term_id}]
             ELSE [c1 EXCEPT !.doc.values = c1.mv]
             : c1 \in {index_item_value(id.c, properties, all)}} : TRUE)
             : all \in {add_id_field(fields, id.document_id)}} : TRUE)

\* The id specification of the call is logged with the id the caller gave.
LogId(c, spc_id, document_id) ==
    [c EXCEPT !.ids = Append(@, [op |-> "id", spc |-> spc_id, value |-> document_id])]

\* Schema::index without its catch clause.
index_try(c0, object, document_id) ==
    (CHOOSE the \in {
        IF ~Ok(r.c) THEN r.c
        ELSE (CHOOSE the \in {
             IF spc_id.err # "" THEN THROW(r.c, spc_id.err, "_type not supported")
             ELSE (CHOOSE the \in {
                      index_fields_and_id(id, IF id.moved THEN Ptr("mut", <<>>) ELSE r.ptr,
                                          r.c.fields)
                      : id \in {resolve_id(LogId(r.c, spc_id, document_id), spc_id, document_id)}} : TRUE)
                 : spc_id \in {id_specification(r.c, r.c.fields)}} : TRUE)
        : r \in {IF Len(object.items) = 0
         THEN [c |-> feed_root(c0, get_newest_properties(c0)),
               ptr |-> get_newest_properties(c0)]
         ELSE enter_root(c0, object)}} : TRUE)

\* Schema::index(object, document_id)
Schema_index(spc, sch, mut, kept, values, object, document_id) ==
    (CHOOSE the \in {
    (CHOOSE the \in {
        IF Ok(c) THEN c ELSE catch_reset(c)
        : c \in {index_try(c0, object, document_id)}} : TRUE)
        : c0 \in {WithValues(NewCtx(start_specification(spc), sch, mut, kept),
                    map_values_clear(values))}} : TRUE)

----------------------------------------------------------------------------
(* Schema::update: the traversal of a schema fragment *)

\* Schema::update_subproperties for a field name of one segment.
update_subproperties(c, ptr, name, object, has_object) ==
    IF ~is_valid(name) /\ ~(c.spc.full_meta_name = <<>> /\ name = ID_FIELD_NAME)
    THEN [c |-> THROW(c, "ClientError", "Field is not valid"), ptr |-> ptr]
    ELSE (CHOOSE the \in {
         IF f.found
         THEN (CHOOSE the \in {
                  [c |-> IF Ok(c1) THEN WithSpc(c1, update_prefixes(c1.spc)) ELSE c1,
                   ptr |-> f.ptr]
                  : c1 \in {IF has_object THEN dispatch_process_properties(f.c, object) ELSE f.c}} : TRUE)
         ELSE (CHOOSE the \in {
              (CHOOSE the \in {
                  [c |-> c1, ptr |-> Ptr(m.ptr.t, Append(m.ptr.p, f.c.spc.meta_name))]
                  : c1 \in {add_field(m.c, m.ptr, object, has_object)}} : TRUE)
                  : m \in {get_mutable_properties(f.c, f.c.spc.full_meta_name)}} : TRUE)
             : f \in {feed_field(WithSpc(c, restart_specification(c.spc)), ptr, name,
                         FALSE)}} : TRUE)

\* Schema::update_item_value(): a field given by a plain value.
update_item_value_leaf(c) ==
    (CHOOSE the \in {
    (CHOOSE the \in {
        IF Ok(c2) /\ AllTypesEmpty(c2.spc) THEN set_type_to_object(c2) ELSE c2
        : c2 \in {IF ~Ok(c1) \/ c.spc.concrete THEN c1
         ELSE IF c1.spc.sep_types[SPC_CONCRETE_TYPE] = "empty"
         THEN (IF c.spc.sep_types[SPC_FOREIGN_TYPE] # "foreign" /\ c1.spc.strict
               THEN MissingType(c1) ELSE c1)
         ELSE ValidateMutable(c1)}} : TRUE)
        : c1 \in {imply_foreign(c)}} : TRUE)

RECURSIVE update_object(_, _, _, _)
RECURSIVE update_array(_, _, _, _)
RECURSIVE update_item_value(_, _, _)
RECURSIVE UpdateFields(_, _, _, _, _)
RECURSIVE UpdateArrayItems(_, _, _, _, _, _)

\* Schema::update_item_value(properties, fields)
update_item_value(c, ptr, fields) ==
    (CHOOSE the \in {
    (CHOOSE the \in {
        IF ~Ok(c2) THEN c2
        ELSE IF Len(fields) = 0
        THEN (IF AllTypesEmpty(c2.spc) THEN set_type_to_object(c2) ELSE c2)
        ELSE IF c2.spc.sep_types[SPC_FOREIGN_TYPE] = "foreign"
        THEN THROW(c2, "ClientError", "foreign type cannot have extra fields")
        ELSE (CHOOSE the \in {
                 UpdateFields(c3, ptr, fields, 1, c3.spc)
                 : c3 \in {set_type_to_object(c2)}} : TRUE)
        : c2 \in {IF Ok(c1) /\ ~c1.spc.concrete /\ c1.spc.sep_types[SPC_CONCRETE_TYPE] # "empty"
         THEN ValidateMutable(c1) ELSE c1}} : TRUE)
        : c1 \in {imply_foreign(c)}} : TRUE)

UpdateFields(c, ptr, fields, i, spc_object) ==
    IF i > Len(fields) \/ ~Ok(c) THEN c
    ELSE (CHOOSE the \in {
         (CHOOSE the \in {
             UpdateFields(c1, ptr, fields, i + 1, spc_object)
             : c1 \in {update_object(c0, ptr, fields[i][2], fields[i][1])}} : TRUE)
             : c0 \in {WithSpc(c, spc_assign(c.spc, spc_object))}} : TRUE)

\* Schema::update_object
update_object(c, pptr, object, name) ==
    IF is_valid(name) /\ ~c.spc.recurse THEN c
    ELSE IF is_map(object)
    THEN (CHOOSE the \in {
         (CHOOSE the \in {Restore(c1, c.spc)
             : c1 \in {IF Ok(r.c) THEN update_item_value(r.c, r.ptr, r.c.fields) ELSE r.c}} : TRUE)
             : r \in {update_subproperties(c, pptr, name, object, TRUE)}} : TRUE)
    ELSE IF is_array(object) THEN update_array(c, pptr, object, name)
    ELSE (CHOOSE the \in {
         (CHOOSE the \in {Restore(c1, c.spc)
             : c1 \in {IF Ok(r.c) /\ ~(is_null(object) \/ is_undefined(object))
              THEN update_item_value_leaf(r.c) ELSE r.c}} : TRUE)
             : r \in {update_subproperties(c, pptr, name, Nil, FALSE)}} : TRUE)

\* Schema::update_array
update_array(c, pptr, array, name) ==
    IF Len(array.items) = 0 THEN set_type_to_array(c)
    ELSE UpdateArrayItems(c, pptr, array.items, name, 1, c.spc)

UpdateArrayItems(c, pptr, items, name, i, spc_start) ==
    IF i > Len(items) \/ ~Ok(c) THEN c
    ELSE (CHOOSE the \in {
         (CHOOSE the \in {
         (CHOOSE the \in {
         (CHOOSE the \in {
             UpdateArrayItems(c2, pptr, items, name, i + 1, spc_start)
             : c2 \in {Restore(c1, spc_start)}} : TRUE)
             : c1 \in {IF ~Ok(r.c) THEN r.c
              ELSE IF is_map(item) THEN update_item_value(r.c, r.ptr, r.c.fields)
              ELSE IF is_null(item) \/ is_undefined(item) THEN r.c
              ELSE update_item_value_leaf(r.c)}} : TRUE)
             : r \in {IF is_map(item) THEN update_subproperties(c, pptr, name, item, TRUE)
              ELSE update_subproperties(c, pptr, name, Nil, FALSE)}} : TRUE)
             : item \in {items[i]}} : TRUE)

----------------------------------------------------------------------------
(* Schema::write: the traversal of a schema fragment on the draft *)

\* Schema::write_subproperties for a field name of one segment.
write_subproperties(c, ptr, name, object, has_object) ==
    IF ~is_valid(name) /\ ~(c.spc.full_meta_name = <<>> /\ name = ID_FIELD_NAME)
    THEN [c |-> THROW(c, "ClientError", "Field is not valid"), ptr |-> ptr]
    ELSE (CHOOSE the \in {
         IF f.found
         THEN (CHOOSE the \in {
                  [c |-> IF Ok(c1) THEN WithSpc(c1, update_prefixes(c1.spc)) ELSE c1,
                   ptr |-> f.ptr]
                  : c1 \in {IF has_object THEN dispatch_write_properties(f.c, f.ptr, object)
                   ELSE f.c}} : TRUE)
         ELSE (CHOOSE the \in {
                  [c |-> c1, ptr |-> Ptr(ptr.t, Append(ptr.p, f.c.spc.meta_name))]
                  : c1 \in {add_field(f.c, ptr, object, has_object)}} : TRUE)
             : f \in {feed_field(WithSpc(c, restart_specification(c.spc)), ptr, name,
                         TRUE)}} : TRUE)

\* Schema::write_item_value(mut_properties): a field given by a plain value.
write_item_value_leaf(c, ptr) ==
    (CHOOSE the \in {
    (CHOOSE the \in {
        IF Ok(c2) /\ AllTypesEmpty(c2.spc) THEN set_type_to_object(c2) ELSE c2
        : c2 \in {IF ~Ok(c1) \/ c.spc.concrete THEN c1
         ELSE IF c1.spc.sep_types[SPC_CONCRETE_TYPE] = "empty"
                 /\ c.spc.sep_types[SPC_FOREIGN_TYPE] # "foreign" /\ c1.spc.strict
         THEN MissingType(c1)
         ELSE validate_required_data(c1, ptr)}} : TRUE)
        : c1 \in {imply_foreign(c)}} : TRUE)

RECURSIVE write_object(_, _, _, _)
RECURSIVE write_array(_, _, _, _)
RECURSIVE write_item_value(_, _, _)
RECURSIVE WriteFields(_, _, _, _, _)
RECURSIVE WriteArrayItems(_, _, _, _, _, _)

\* Schema::write_item_value(mut_properties, fields)
write_item_value(c, ptr, fields) ==
    (CHOOSE the \in {
    (CHOOSE the \in {
        IF ~Ok(c2) THEN c2
        ELSE IF Len(fields) = 0
        THEN (IF AllTypesEmpty(c2.spc) THEN set_type_to_object(c2) ELSE c2)
        ELSE IF c2.spc.sep_types[SPC_FOREIGN_TYPE] = "foreign"
        THEN THROW(c2, "ClientError", "foreign type cannot have extra fields")
        ELSE (CHOOSE the \in {
                 WriteFields(c3, ptr, fields, 1, c3.spc)
                 : c3 \in {set_type_to_object(c2)}} : TRUE)
        : c2 \in {IF Ok(c1) /\ ~c1.spc.concrete THEN validate_required_data(c1, ptr) ELSE c1}} : TRUE)
        : c1 \in {imply_foreign(c)}} : TRUE)

WriteFields(c, ptr, fields, i, spc_object) ==
    IF i > Len(fields) \/ ~Ok(c) THEN c
    ELSE (CHOOSE the \in {
         (CHOOSE the \in {
             WriteFields(c1, ptr, fields, i + 1, spc_object)
             : c1 \in {write_object(c0, ptr, fields[i][2], fields[i][1])}} : TRUE)
             : c0 \in {WithSpc(c, spc_assign(c.spc, spc_object))}} : TRUE)

\* Schema::write_object
write_object(c, pptr, object, name) ==
    IF is_valid(name) /\ ~c.spc.recurse THEN c
    ELSE IF is_map(object)
    THEN (CHOOSE the \in {
         (CHOOSE the \in {Restore(c1, c.spc)
             : c1 \in {IF Ok(r.c) THEN write_item_value(r.c, r.ptr, r.c.fields) ELSE r.c}} : TRUE)
             : r \in {write_subproperties(c, pptr, name, object, TRUE)}} : TRUE)
    ELSE IF is_array(object) THEN write_array(c, pptr, object, name)
    ELSE (CHOOSE the \in {
         (CHOOSE the \in {Restore(c1, c.spc)
             : c1 \in {IF Ok(r.c) /\ ~(is_null(object) \/ is_undefined(object))
              THEN write_item_value_leaf(r.c, r.ptr) ELSE r.c}} : TRUE)
             : r \in {write_subproperties(c, pptr, name, Nil, FALSE)}} : TRUE)

\* Schema::write_array
write_array(c, pptr, array, name) ==
    IF Len(array.items) = 0 THEN set_type_to_array(c)
    ELSE WriteArrayItems(c, pptr, array.items, name, 1, c.spc)

WriteArrayItems(c, pptr, items, name, i, spc_start) ==
    IF i > Len(items) \/ ~Ok(c) THEN c
    ELSE (CHOOSE the \in {
         (CHOOSE the \in {
         (CHOOSE the \in {
         (CHOOSE the \in {
             WriteArrayItems(c2, pptr, items, name, i + 1, spc_start)
             : c2 \in {Restore(c1, spc_start)}} : TRUE)
             : c1 \in {IF ~Ok(r.c) THEN r.c
              ELSE IF is_map(item) THEN write_item_value(r.c, r.ptr, r.c.fields)
              ELSE IF is_null(item) \/ is_undefined(item) THEN r.c
              ELSE write_item_value_leaf(r.c, r.ptr)}} : TRUE)
             : r \in {IF is_map(item) THEN write_subproperties(c, pptr, name, item, TRUE)
              ELSE write_subproperties(c, pptr, name, Nil, FALSE)}} : TRUE)
             : item \in {items[i]}} : TRUE)

----------------------------------------------------------------------------
(* Schema::check, Schema::update, Schema::write *)

SCHEMA_FIELD_NAME == "schema"

\* The outcome of Schema::check: the error, or the foreign endpoint (first)
\* and the `schema` object (second).
Checked(err, first, second) == [err |-> err, first |-> first, second |-> second]

Invalid(err) == Checked(err, NoValue, NoValue)

HasType(o) == HasKey(o, "_type")

TypesOf(o) == _get_type(At(o, "_type").items)

\* The checks of Schema::check on the `schema` object.
check_schema(object, sch) ==
    IF ~is_map(sch) THEN Invalid("schema is not an object")
    ELSE IF HasType(sch) /\ ~is_string(At(sch, "_type"))
    THEN Invalid("schema._type must be a string")
    ELSE IF HasType(sch) /\ TypesOf(sch) = EmptyTypes
    THEN Invalid("_type not supported")
    ELSE IF HasType(sch) /\ TypesOf(sch)[SPC_OBJECT_TYPE] # "object"
    THEN Invalid("schema has an unsupported type")
    ELSE IF HasKey(object, "_schemas")
    THEN Invalid("_schemas is not valid")
    ELSE Checked("", NoValue, sch)

\* Schema::check<ClientError>(object, "Invalid schema: ", true, true): the
\* foreign endpoint, the `schema` object, or the error.
check(object) ==
    IF (is_map(object) \/ is_array(object)) /\ Len(object.items) = 0
    THEN Invalid("Schema object is empty")
    ELSE IF is_string(object) THEN Checked("", object, NoValue)
    ELSE IF ~is_map(object) THEN Invalid("Schema must be a map")
    ELSE IF HasType(object) /\ ~is_string(At(object, "_type"))
    THEN Invalid("_type must be a string")
    ELSE IF HasType(object) /\ TypesOf(object) = EmptyTypes
    THEN Invalid("_type not supported")
    ELSE IF HasType(object) /\ TypesOf(object)[SPC_FOREIGN_TYPE] = "foreign"
    THEN (IF ~HasKey(object, "_endpoint")
          THEN Invalid("_endpoint does not exist")
          ELSE IF ~is_string(At(object, "_endpoint"))
          THEN Invalid("_endpoint must be a string")
          ELSE Checked("", At(object, "_endpoint"), object))
    ELSE IF HasType(object) /\ TypesOf(object)[SPC_OBJECT_TYPE] # "object"
    THEN Invalid("Schema object has an unsupported type")
    ELSE IF ~HasKey(object, SCHEMA_FIELD_NAME) THEN Checked("", NoValue, NoValue)
    ELSE check_schema(object, At(object, SCHEMA_FIELD_NAME))

\* { _type: "foreign/object", _endpoint: <endpoint> }
Redirect(endpoint) ==
    [null |-> FALSE, n |-> <<>>, fed |-> <<>>,
     top |-> ("_type" :> MkVal("str", 0, "", 0, <<"foreign", "object">>)
              @@ "_endpoint" :> endpoint)]

IsRedirect(tree) == ~tree.null /\ ~HasNode(tree, <<>>)

\* What update and write return for any redirect, were the size not looked at.
redirected_always(c, checked) ==
    [c EXCEPT !.trees.mut = Redirect(checked.first), !.ret = TRUE]

\* The draft becomes the redirect; the call returns whether the object the
\* redirect was read from holds more than its two keys.
redirected(c, checked) ==
    [c EXCEPT !.trees.mut = Redirect(checked.first),
              !.ret = IF checked.second.t # "none"
                      THEN Len(checked.second.items) # 2 ELSE FALSE]

\* Inject remaining items from the received object into the new schema.
RECURSIVE inject(_, _, _)
inject(c, kv, i) ==
    IF i > Len(kv) THEN c
    ELSE IF kv[i][1] = SCHEMA_FIELD_NAME THEN inject(c, kv, i + 1)
    ELSE (CHOOSE the \in {
             inject(c1, kv, i + 1)
             : c1 \in {[c EXCEPT !.trees.mut =
                  [(IF c.trees.mut.null THEN clone(c.trees.sch) ELSE c.trees.mut)
                      EXCEPT !.top = (kv[i][1] :> kv[i][2]) @@ @]]}} : TRUE)

\* The keys beside `schema` are injected once the fragment is applied.
finish_schema(c1, object) ==
    IF Ok(c1) THEN inject(c1, object.items, 1) ELSE c1

\* The `schema` object of an update against the newest properties.
update_schema(c, sch_obj) ==
    (CHOOSE the \in {
        IF Ok(r.c) THEN update_item_value(r.c, r.ptr, r.c.fields) ELSE r.c
        : r \in {enter_root(c, sch_obj)}} : TRUE)

\* Schema::update without its catch clause.
update_try(c, object) ==
    (CHOOSE the \in {
        IF checked.err # "" THEN THROW(c, "ClientError", checked.err)
        ELSE IF checked.first.t # "none"
        THEN redirected(c, checked)
        ELSE (CHOOSE the \in {
                 finish_schema(c1, object)
                 : c1 \in {IF checked.second.t = "none" THEN c
                  ELSE update_schema(c, checked.second)}} : TRUE)
        : checked \in {check(object)}} : TRUE)

\* Schema::update(object)
Schema_update(spc, sch, mut, kept, values, object) ==
    (CHOOSE the \in {
    (CHOOSE the \in {
        IF Ok(c) THEN c ELSE catch_reset(c)
        : c \in {update_try(c0, object)}} : TRUE)
        : c0 \in {WithValues(NewCtx(start_specification(spc), sch, mut, kept),
                    map_values_clear(values))}} : TRUE)

\* mut_properties->clear()
clear(c) == [c EXCEPT !.trees.mut = [@ EXCEPT !.n = (<<>> :> <<>>), !.fed = <<>>]]

\* The `schema` object of a write on the draft's root.
write_schema(c, sch_obj, replace) ==
    (CHOOSE the \in {
    (CHOOSE the \in {
    (CHOOSE the \in {
    (CHOOSE the \in {
        IF Ok(c2) THEN write_item_value(c2, m.ptr, c2.fields) ELSE c2
        : c2 \in {dispatch_write_properties(c1, m.ptr, sch_obj)}} : TRUE)
        : c1 \in {IF NodeEmpty(c0.trees.mut, <<>>)
         THEN WithSpc(c0, [c0.spc EXCEPT !.field_found = FALSE])
         ELSE feed_root(c0, m.ptr)}} : TRUE)
        : c0 \in {IF replace THEN clear(m.c) ELSE m.c}} : TRUE)
        : m \in {get_mutable_properties(c, <<>>)}} : TRUE)

\* Schema::write without its catch clause.
write_try(c, object, replace) ==
    (CHOOSE the \in {
        IF checked.err # "" THEN THROW(c, "ClientError", checked.err)
        ELSE IF checked.first.t # "none"
        THEN redirected(c, checked)
        ELSE (CHOOSE the \in {
                 finish_schema(c3, object)
                 : c3 \in {IF checked.second.t = "none" THEN c
                  ELSE write_schema(c, checked.second, replace)}} : TRUE)
        : checked \in {check(object)}} : TRUE)

\* Schema::write(object, replace)
Schema_write(spc, sch, mut, kept, values, object, replace) ==
    (CHOOSE the \in {
    (CHOOSE the \in {
        IF Ok(c) THEN c ELSE catch_reset(c)
        : c \in {write_try(c0, object, replace)}} : TRUE)
        : c0 \in {WithValues(NewCtx(start_specification(spc), sch, mut, kept),
                    map_values_clear(values))}} : TRUE)

----------------------------------------------------------------------------
(* Requests *)

\* A `_type` string as the document gives it.
T(words) == MkVal("str", 0, "", 0, words)
S(str) == Str(str, 1)
NoId == NoValue

NoResult ==
    [op |-> "none", err |-> "", msg |-> "", dropped |-> FALSE, doc |-> EmptyDoc,
     data |-> <<>>, log |-> <<>>, object |-> Nil, document_id |-> NoId, ret |-> FALSE,
     full |-> NoDraft, ids |-> <<>>, added |-> {}, starts |-> <<>>, feeds |-> <<>>]

IndexRequest(object, id) == [op |-> "index", object |-> object, id |-> id, replace |-> FALSE]
UpdateRequest(object) == [op |-> "update", object |-> object, id |-> NoId, replace |-> FALSE]
WriteRequest(object, replace) ==
    [op |-> "write", object |-> object, id |-> NoId, replace |-> replace]

Doc1(name, value) == Map(<< <<name, value>> >>)
Doc2(n1, v1, n2, v2) == Map(<< <<n1, v1>>, <<n2, v2>> >>)
Typed(words, value) == Map(<< <<"_type", T(words)>>, <<"_value", value>> >>)
SchemaOf(object) == Doc1(SCHEMA_FIELD_NAME, object)

\* Values of one field: scalars of several types, arrays, declarations.
TypeRequests ==
    { IndexRequest(Doc1("f", Pos(1)), NoId),
      IndexRequest(Doc1("f", Neg(2)), NoId),
      IndexRequest(Doc1("f", S("a")), NoId),
      IndexRequest(Doc1("f", Arr(<<Pos(1), S("a")>>)), NoId),
      IndexRequest(Doc1("f", Arr(<<Nil, Pos(1)>>)), NoId),
      IndexRequest(Doc1("g", Pos(1)), NoId),
      IndexRequest(Doc1("f", Typed(<<"integer">>, Pos(1))), NoId),
      IndexRequest(Doc1("f", Doc2("_slot", Pos(7), "_value", Pos(1))), NoId),
      UpdateRequest(SchemaOf(Doc1("f", Doc1("_type", T(<<"integer">>))))) }

\* `_store` on the root, on a parent and on a child.
StoreRequests ==
    { IndexRequest(Doc2("_store", Bool(FALSE), "a", Pos(1)), NoId),
      IndexRequest(Doc1("c", Map(<< <<"_store", Bool(TRUE)>>, <<"_type", T(<<"keyword">>)>>,
                                    <<"_value", S("x")>> >>)), NoId),
      IndexRequest(Doc1("c", S("x")), NoId),
      IndexRequest(Doc1("p", Doc2("_store", Bool(FALSE),
                                  "c", Doc2("_store", Bool(TRUE), "_value", Pos(1)))), NoId),
      IndexRequest(Doc1("p", Doc1("c", Pos(1))), NoId),
      WriteRequest(SchemaOf(Doc1("p", Doc1("_store", Bool(FALSE)))), FALSE) }

\* Strict roots and subtrees, with and without declared types.
StrictRequests ==
    { IndexRequest(Doc2("_strict", Bool(TRUE), "f", Pos(1)), NoId),
      IndexRequest(Doc2("_strict", Bool(TRUE), "f", Typed(<<"integer">>, Pos(1))), NoId),
      IndexRequest(Doc2("_strict", Bool(TRUE), "o", Doc1("f", Typed(<<"integer">>, Pos(1)))),
                   NoId),
      IndexRequest(Doc2("_strict", Bool(TRUE), "f", Arr(<<>>)), NoId),
      IndexRequest(Doc1("f", Pos(1)), S("a")),
      IndexRequest(Doc1("g", S("a")), NoId),
      UpdateRequest(SchemaOf(Doc2("_strict", Bool(TRUE), "f", Pos(1)))),
      WriteRequest(SchemaOf(Doc2("_strict", Bool(TRUE), "f", Doc1("_type", T(<<"text">>)))),
                   TRUE) }

Endpoint == S("a/b")

\* Foreign fields: declared, implied by `_endpoint`, persisted.
ForeignRequests ==
    { IndexRequest(Doc1("f", Map(<< <<"_type", T(<<"foreign">>)>>, <<"_endpoint", Endpoint>>,
                                    <<"_index", S("none")>> >>)), NoId),
      IndexRequest(Doc1("f", Doc2("_type", T(<<"foreign">>), "_endpoint", Endpoint)), NoId),
      IndexRequest(Doc1("f", S("x")), NoId),
      IndexRequest(Doc1("f", Map(<< <<"_type", T(<<"foreign">>)>>, <<"_endpoint", Endpoint>>,
                                    <<"_value", Pos(1)>> >>)), NoId),
      IndexRequest(Doc1("f", Doc2("_endpoint", Endpoint, "g", Pos(1))), NoId),
      IndexRequest(Doc1("f", Doc1("g", Pos(1))), NoId),
      UpdateRequest(Endpoint),
      UpdateRequest(Doc2("_type", T(<<"foreign", "object">>), "_endpoint", Endpoint)),
      UpdateRequest(Map(<< <<"_type", T(<<"foreign", "object">>)>>,
                           <<"_endpoint", Endpoint>>, <<"description", S("d")>> >>)) }

\* Terms at the size limit and the numeric id zero.
TermRequests ==
    { IndexRequest(Doc1("k", Typed(<<"keyword">>, Str("x", 243))), NoId),
      IndexRequest(Doc1("k", Typed(<<"keyword">>, Str("x", 244))), NoId),
      IndexRequest(Doc1("u", Typed(<<"uuid">>, Str("~uuid", 243))), NoId),
      IndexRequest(Doc1("u", Typed(<<"uuid">>, Str("~uuid", 244))), NoId),
      IndexRequest(Doc1("n", Pos(0)), Pos(0)),
      IndexRequest(Doc1("n", Pos(0)), Pos(1)),
      IndexRequest(Doc1("n", Nil), NoId),
      IndexRequest(Doc1("_id", Doc1("_type", T(<<"integer">>))), NoId),
      IndexRequest(Doc1("_id", Doc2("_type", T(<<"keyword">>), "_index", S("none"))),
                   Str("x", 244)),
      IndexRequest(Doc1("_id", Doc2("_type", T(<<"keyword">>), "_bool_term", Bool(FALSE))),
                   S("x")) }

\* Schema fragments: written, updated, replaced, rejected.
SchemaRequests ==
    { UpdateRequest(SchemaOf(Doc1("f", Doc1("_type", T(<<"integer">>))))),
      UpdateRequest(SchemaOf(Doc1("f", Doc1("_type", T(<<"text">>))))),
      UpdateRequest(Doc2(SCHEMA_FIELD_NAME, Doc1("g", Pos(1)), "description", S("d"))),
      UpdateRequest(Map(<<>>)),
      UpdateRequest(Doc1("_schemas", S("s"))),
      WriteRequest(Doc2(SCHEMA_FIELD_NAME, Doc1("g", Pos(1)), "_schemas", S("s")), FALSE),
      WriteRequest(SchemaOf(Doc1("f", Doc1("_type", T(<<"integer">>)))), FALSE),
      WriteRequest(SchemaOf(Doc1("f", Doc1("_type", T(<<"text">>)))), FALSE),
      WriteRequest(SchemaOf(Doc1("f", Doc1("_type", T(<<"text">>)))), TRUE),
      IndexRequest(Doc1("f", S("a")), NoId) }

\* Partial paths: null leaves two and three levels deep, a value three
\* levels deep, the numeric id zero.
PathRequests ==
    { IndexRequest(Doc2("_partial_paths", Bool(TRUE), "a", Doc1("b", Nil)), Pos(0)),
      IndexRequest(Doc2("_partial_paths", Bool(TRUE), "a", Doc1("b", Doc1("c", Nil))), Pos(0)),
      IndexRequest(Doc2("_partial_paths", Bool(TRUE), "a", Doc1("b", Doc1("c", Pos(0)))),
                   Pos(1)),
      IndexRequest(Doc1("a", Doc1("b", Doc1("c", Arr(<<Nil, Pos(0)>>)))), Pos(0)),
      IndexRequest(Doc2("b", Doc2("y", Pos(1), "x", S("s")), "a", Pos(3)), NoId),
      IndexRequest(Doc1("a", Doc2("_partial_paths", Bool(FALSE), "b", Doc1("c", Nil))), NoId) }

\* UUID-named fields: two spellings of one UUID as siblings, stored and not
\* stored, two UUIDs, a UUID beside a plain field, a malformed UUID.
UuidRequests ==
    { IndexRequest(Doc2(UUID_compact, S("a"), UUID_canonical, S("x")), NoId),
      IndexRequest(Doc2(UUID_urn, Pos(1), UUID_braced, Pos(2)), NoId),
      IndexRequest(Map(<< <<"_store", Bool(FALSE)>>, <<UUID_compact, Pos(1)>>,
                          <<UUID_canonical, Pos(2)>> >>), NoId),
      IndexRequest(Doc2(UUID_compact, Pos(1), UUID_second, Pos(2)), NoId),
      IndexRequest(Doc2("a", Pos(1), UUID_canonical, Pos(2)), NoId),
      IndexRequest(Doc1(UUID_malformed, Pos(1)), NoId) }

\* Accuracies: a geospatial and a date field that give their `_accuracy`, a
\* date detected from its value at the root and in an object, a date that
\* indexes values only, a level beyond HTM_MAX_LEVEL, geometries given twice
\* and once in the array of a field.
WithAccuracy(words, value, accuracy) ==
    Map(<< <<"_type", T(words)>>, <<"_value", value>>, <<"_accuracy", Arr(accuracy)>> >>)

AccuracyRequests ==
    { IndexRequest(Doc1("point", WithAccuracy(<<"geospatial">>, Str("POINT(1 1)", 10),
                                              <<Pos(10), Pos(15)>>)), NoId),
      IndexRequest(Doc1("date", WithAccuracy(<<"date">>, Str("2016-10-25", 10),
                                             <<Pos(3600), S("century")>>)), NoId),
      IndexRequest(Doc1("d", Str("2016-10-25", 10)), NoId),
      IndexRequest(Doc1("o", Doc1("d", Str("2016-10-25", 10))), NoId),
      IndexRequest(Doc1("dv", Map(<< <<"_index", S("field_values")>>,
                                     <<"_type", T(<<"date">>)>>,
                                     <<"_value", Str("2016-10-25", 10)>>,
                                     <<"_accuracy", Arr(<<Pos(3600), S("century")>>)>> >>)),
                   NoId),
      IndexRequest(Doc1("point", WithAccuracy(<<"geospatial">>, Str("POINT(1 1)", 10),
                                              <<Pos(10), Pos(30)>>)), NoId),
      IndexRequest(Doc1("g", Arr(<<Str("POINT(1 1)", 10), Str("POINT(1 1)", 10)>>)), NoId),
      IndexRequest(Doc1("g", Typed(<<"geospatial">>,
                                   Arr(<<Str("CIRCLE(1 1, 9)", 14), Str("POINT(2 2)", 10),
                                         Str("POINT(2 2)", 10)>>))), NoId),
      IndexRequest(Doc1("g", Arr(<<Str("POINT(1 1)", 10), Str("POINT(2 2)", 10)>>)), NoId) }

\* Detection: keywords named in upper and lower case, strings of every class
\* under the default flags and under flags the document turns off, a
\* `_bool_term` given without a type.
Flagged(key, value) == Doc2(key, Bool(FALSE), "_value", value)

Strings ==
    << <<"a", S("~uuid")>>, <<"b", Str("2016-10-25", 10)>>,
       <<"c", Str("2016-10-25T12:30:00", 19)>>, <<"d", Str("12:30:00", 8)>>,
       <<"e", Str("+12:30:00", 9)>>, <<"f", S("true")>>,
       <<"g", Str("POINT(1 1)", 10)>>, <<"h", S("abc")>> >>

DetectRequests ==
    { IndexRequest(Doc1("K", Typed(<<"keyword">>, S("x"))), NoId),
      IndexRequest(Doc1("k", Typed(<<"keyword">>, S("x"))), NoId),
      IndexRequest(Doc1("K", Map(<< <<"_type", T(<<"keyword">>)>>,
                                    <<"_bool_term", Bool(FALSE)>>,
                                    <<"_value", S("x")>> >>)), NoId),
      IndexRequest(Map(Strings), NoId),
      IndexRequest(Map(<< <<"_uuid_detection", Bool(FALSE)>>,
                          <<"_date_detection", Bool(FALSE)>>,
                          <<"_bool_detection", Bool(FALSE)>> >> \o Strings), NoId),
      IndexRequest(Map(<< <<"_datetime_detection", Bool(FALSE)>>,
                          <<"_time_detection", Bool(FALSE)>>,
                          <<"_timedelta_detection", Bool(FALSE)>>,
                          <<"_geo_detection", Bool(FALSE)>>,
                          <<"_text_detection", Bool(FALSE)>> >> \o Strings), NoId),
      IndexRequest(Doc1("n", Flagged("_numeric_detection", Pos(1))), NoId),
      IndexRequest(Doc1("t", Flagged("_bool_detection", Bool(TRUE))), NoId),
      IndexRequest(Doc1("s", Doc2("_bool_term", Bool(TRUE), "_value", S("abc"))), NoId),
      IndexRequest(Doc1("s", Doc2("_bool_term", Bool(TRUE), "_value", S("true"))), NoId) }

\* Prefixes of accuracies: a document names `_acc_prefix` with and without
\* an `_accuracy`, and a later document gives a plain value.
PrefixRequests ==
    { IndexRequest(Doc1("n", Map(<< <<"_type", T(<<"integer">>)>>,
                                    <<"_accuracy", Arr(<<Pos(100), Pos(1000)>>)>>,
                                    <<"_acc_prefix", Arr(<<S("a")>>)>>,
                                    <<"_value", Pos(5)>> >>)), NoId),
      IndexRequest(Doc1("k", Map(<< <<"_type", T(<<"keyword">>)>>,
                                    <<"_acc_prefix", Arr(<<S("a")>>)>>,
                                    <<"_value", S("x")>> >>)), NoId),
      IndexRequest(Doc1("n", Pos(7)), NoId) }

Workloads ==
    {"types", "store", "strict", "foreign", "terms", "schema", "paths", "uuids",
     "accuracy", "detect", "prefixes"}

Requests(w) ==
    CASE w = "types" -> TypeRequests
      [] w = "store" -> StoreRequests
      [] w = "strict" -> StrictRequests
      [] w = "foreign" -> ForeignRequests
      [] w = "terms" -> TermRequests
      [] w = "schema" -> SchemaRequests
      [] w = "paths" -> PathRequests
      [] w = "uuids" -> UuidRequests
      [] w = "accuracy" -> AccuracyRequests
      [] w = "detect" -> DetectRequests
      [] w = "prefixes" -> PrefixRequests

----------------------------------------------------------------------------
(* The readable schema *)

\* A reserved key of a node, were every key shown.
readable_shown(key, value, properties) == TRUE

\* Schema::_dispatch_readable: FALSE erases the key.  readable_prefix,
\* readable_slot and readable_acc_prefix erase; `_stem_language` is shown when
\* it differs from `_language`; a key without a handler (out_of_range) stays.
_dispatch_readable(key, value, properties) ==
    IF key \in {"_prefix", "_slot", "_acc_prefix"} THEN FALSE
    ELSE IF key = "_stem_language"
    THEN ("_language" \notin DOMAIN properties) \/ properties["_language"] # value
    ELSE TRUE

\* The node of a path in readable form.
ReadableNode(node) ==
    [key \in {k \in DOMAIN node : _dispatch_readable(k, node[k], node)} |-> node[key]]

\* Schema::dispatch_readable: the paths it leaves under p.  The children with
\* a valid name are walked; `_id`, the one reserved name a child bears, is
\* erased at the root and walked elsewhere.
RECURSIVE dispatch_readable(_, _, _)
dispatch_readable(tree, p, at_root) ==
    {p} \cup UNION {dispatch_readable(tree, q, FALSE) :
                      q \in {r \in ChildrenOf(tree, p) :
                                 is_valid(r[Len(r)]) \/ ~at_root}}

\* Schema::get_full: the newest properties, in readable form when asked.
get_full(sch, mut, readable) ==
    (CHOOSE the \in {
        IF readable /\ HasNode(full_schema, <<>>)
        THEN [null |-> FALSE, fed |-> <<>>, top |-> <<>>,
              n |-> [q \in dispatch_readable(full_schema, <<>>, TRUE) |->
                        ReadableNode(full_schema.n[q])]]
        ELSE full_schema
        : full_schema \in {IF mut.null THEN sch ELSE mut}} : TRUE)

----------------------------------------------------------------------------
(* Schema::index picking an id for a document that came without one *)

MaxShards == 2
MaxDocCount == 1

\* std::numeric_limits<Xapian::doccount>::max(): a document count is an
\* unsigned 32-bit number, held here as its bit pattern (2^32 - 1 is -1).
DOCCOUNT_MAX == -1

\* a > b on unsigned 32-bit numbers.
unsigned_greater(a, b) ==
    IF a < 0 THEN b >= 0 \/ a > b
    ELSE b >= 0 /\ a > b

\* for (int t = 10; t >= 0; --t)
FIRST_TRY == 10

\* An endpoint of db_handler: whether its node is active, the document count
\* of its shard, whether reading the count throws.
Shards ==
    {[active |-> FALSE, doccount |-> 0, throws |-> FALSE],
     [active |-> TRUE, doccount |-> 0, throws |-> TRUE]}
    \cup {[active |-> TRUE, doccount |-> d, throws |-> FALSE] : d \in 0..MaxDocCount}

\* db_handler.endpoints; shard n of the source is endpoints[n + 1].
Endpoints == UNION {[1..n -> Shards] : n \in 1..MaxShards}

\* The locals of the uuid and keyword cases when the case is entered.
\* term_id is the number of the candidate kept (0: the empty string).
start_alloc(kind, endpoints) ==
    [pc |-> "probe", kind |-> kind, endpoints |-> endpoints, n |-> 0,
     min_doccount |-> DOCCOUNT_MAX, shard_num |-> 0, t |-> FIRST_TRY,
     generated |-> 0, tmp_shard_num |-> 0, term_id |-> 0, term_shard |-> 0,
     err |-> ""]

NoAlloc == [start_alloc("", <<>>) EXCEPT !.pc = "none"]

\* One round of the first loop, were a failing read of the count to leave it.
probe_uncaught(a) ==
    (CHOOSE the \in {
        IF endpoint.active /\ endpoint.throws
        THEN [a EXCEPT !.err = "Error", !.pc = "done"]
        ELSE [(IF endpoint.active /\ unsigned_greater(a.min_doccount, endpoint.doccount)
               THEN [a EXCEPT !.min_doccount = endpoint.doccount, !.shard_num = a.n]
               ELSE a)
                 EXCEPT !.n = a.n + 1,
                        !.pc = IF a.n + 1 < Len(a.endpoints) THEN "probe" ELSE "generate"]
        : endpoint \in {a.endpoints[a.n + 1]}} : TRUE)

\* One round of "Get the least used shard".
probe(a) ==
    (CHOOSE the \in {
        [(IF endpoint.active /\ ~endpoint.throws /\ unsigned_greater(a.min_doccount, endpoint.doccount)
          THEN [a EXCEPT !.min_doccount = endpoint.doccount, !.shard_num = a.n]
          ELSE a)
            EXCEPT !.n = a.n + 1,
                   !.pc = IF a.n + 1 < Len(a.endpoints) THEN "probe" ELSE "generate"]
        : endpoint \in {a.endpoints[a.n + 1]}} : TRUE)

\* --t and the test t >= 0.
next_try(a) ==
    [a EXCEPT !.t = a.t - 1, !.pc = IF a.t - 1 >= 0 THEN "generate" ELSE "finish"]

\* One round of the second loop, were a candidate of an inactive node not
\* to count.
generate_again(a, tmp_shard_num) ==
    (CHOOSE the \in {
        IF a.endpoints[tmp_shard_num + 1].active
        THEN (CHOOSE the \in {
                 IF a.shard_num = tmp_shard_num THEN [a2 EXCEPT !.pc = "finish"]
                 ELSE next_try(a2)
                 : a2 \in {[a1 EXCEPT !.term_id = a1.generated, !.term_shard = tmp_shard_num]}} : TRUE)
        ELSE a1
        : a1 \in {[a EXCEPT !.generated = a.generated + 1, !.tmp_shard_num = tmp_shard_num]}} : TRUE)

\* One round of "Figure out a term which goes into the least used shard":
\* the candidate hashes to tmp_shard_num.
generate(a, tmp_shard_num) ==
    (CHOOSE the \in {
        IF a.endpoints[tmp_shard_num + 1].active
        THEN (CHOOSE the \in {
                 IF a.shard_num = tmp_shard_num THEN [a2 EXCEPT !.pc = "finish"]
                 ELSE next_try(a2)
                 : a2 \in {[a1 EXCEPT !.term_id = a1.generated, !.term_shard = tmp_shard_num]}} : TRUE)
        ELSE next_try(a1)
        : a1 \in {[a EXCEPT !.generated = a.generated + 1, !.tmp_shard_num = tmp_shard_num]}} : TRUE)

----------------------------------------------------------------------------
(* The Schema object as a state machine *)

Outcome(op, c, object, id) ==
    [op |-> op, err |-> c.err, msg |-> c.msg, dropped |-> c.dropped, doc |-> c.doc,
     data |-> c.data, log |-> c.log, object |-> object, document_id |-> id,
     ret |-> c.ret, full |-> NoDraft, ids |-> c.ids, added |-> c.added,
     starts |-> c.starts, feeds |-> c.feeds]

Init ==
    /\ schema = get_initial_schema
    /\ mut_schema = NoDraft
    /\ specification = default_spc
    /\ map_values = <<>>
    /\ result = NoResult
    /\ workload \in Workloads
    /\ keeps_data \in BOOLEAN
    /\ calls = 0
    /\ alloc = NoAlloc

\* The Schema object after a call that left the context `c`.
Called(op, c, r) ==
    /\ schema' = c.trees.sch
    /\ mut_schema' = c.trees.mut
    /\ specification' = c.spc
    /\ map_values' = c.mv
    /\ result' = Outcome(op, c, r.object, r.id)
    /\ calls' = calls + 1
    /\ UNCHANGED <<workload, keeps_data, alloc>>

\* A draft that is a redirect is handed out before the next call.
Index ==
    /\ calls < MaxCalls
    /\ ~IsRedirect(mut_schema)
    /\ \E r \in Requests(workload) :
        /\ r.op = "index"
        /\ \E c \in {Schema_index(specification, schema, mut_schema, keeps_data, map_values,
                                  r.object, r.id)} :
            Called("index", c, r)

Update ==
    /\ calls < MaxCalls
    /\ ~IsRedirect(mut_schema)
    /\ \E r \in Requests(workload) :
        /\ r.op = "update"
        /\ \E c \in {Schema_update(specification, schema, mut_schema, keeps_data, map_values,
                                   r.object)} :
            Called("update", c, r)

Write ==
    /\ calls < MaxCalls
    /\ ~IsRedirect(mut_schema)
    /\ \E r \in Requests(workload) :
        /\ r.op = "write"
        /\ \E c \in {Schema_write(specification, schema, mut_schema, keeps_data, map_values,
                                  r.object, r.replace)} :
            Called("write", c, r)

\* Schema::get_modified_schema, the publication of the draft it hands out and
\* the Schema object the next request builds on what is published: a
\* published redirect makes the constructor start from the initial schema.
GetModifiedSchema ==
    /\ schema' = IF mut_schema.null THEN schema
                 ELSE IF IsRedirect(mut_schema) THEN get_initial_schema
                 ELSE mut_schema
    /\ mut_schema' = NoDraft
    /\ specification' = default_spc
    /\ map_values' = <<>>
    /\ result' = [NoResult EXCEPT !.op = "publish"]
    /\ UNCHANGED <<workload, keeps_data, calls, alloc>>

\* Schema::get_full(true): the readable schema is served; the Schema object
\* is left as it is.
GetFull ==
    /\ result' = [NoResult EXCEPT !.op = "get_full",
                                  !.full = get_full(schema, mut_schema, TRUE)]
    /\ UNCHANGED <<schema, mut_schema, specification, map_values, workload, keeps_data,
                   calls, alloc>>

Next == Index \/ Update \/ Write \/ GetModifiedSchema \/ GetFull

Spec == Init /\ [][Next]_vars

----------------------------------------------------------------------------
(* The type functions of required_spc_t on their own *)

StructuralWords == {"foreign", "object", "array"}

ConcreteWords ==
    {"boolean", "date", "datetime", "float", "floating", "geospatial", "integer",
     "positive", "string", "keyword", "term", "text", "time", "timedelta", "uuid",
     "script"}

RECURSIVE Orderings(_)
\* Every ordering of the words of W, as '/'-separated strings.
Orderings(W) ==
    IF W = {} THEN {<<>>}
    ELSE UNION {{<<w>> \o p : p \in Orderings(W \ {w})} : w \in W}

\* The token sets a `_type` string is made of: structural words and at most
\* one concrete word.
TypeTokenSets ==
    {st \cup cw : st \in SUBSET StructuralWords,
                  cw \in {{}} \cup {{w} : w \in ConcreteWords}} \ {{}}

TypeStrings == UNION {Orderings(W) : W \in TypeTokenSets}

TypeTuples ==
    {"empty", "foreign"} \X {"empty", "object"} \X {"empty", "array"}
        \X (ConcreteTypes \cup {"empty"})

get_types(words) ==
    (CHOOSE the \in {
        IF type = EmptyTypes
        THEN [err |-> "ClientError", msg |-> "not supported", types |-> type]
        ELSE [err |-> "", msg |-> "", types |-> type]
        : type \in {_get_type(words)}} : TRUE)

get_str_type(sep_types) ==
    IF StrTypeSupported(sep_types)
    THEN [err |-> "", msg |-> "", str |-> T(_get_str_type(sep_types))]
    ELSE [err |-> "ClientError", msg |-> "not supported", str |-> Nil]

\* A required_spc_t holding any combination of the four types.
TypeInit ==
    /\ schema = get_initial_schema
    /\ mut_schema = NoDraft
    /\ specification \in {[default_spc EXCEPT !.sep_types = t] : t \in TypeTuples}
    /\ map_values = <<>>
    /\ result = NoResult
    /\ workload = "none"
    /\ keeps_data = FALSE
    /\ calls = 0
    /\ alloc = NoAlloc

\* The strings set_types is given: any string on a specification that has no
\* type yet, and the string get_str_type has just returned.
SetTypesInputs ==
    (IF result.op = "none" /\ specification.sep_types = EmptyTypes
     THEN TypeStrings ELSE {})
    \cup (IF result.op = "get_str_type" /\ result.err = ""
          THEN {result.object.items} ELSE {})

SetTypes ==
    /\ \E str_type \in SetTypesInputs :
        \E r \in {get_types(str_type)} :
            /\ specification' = IF r.err = "" THEN [specification EXCEPT !.sep_types = r.types]
                                ELSE specification
            /\ result' = [NoResult EXCEPT !.op = "set_types", !.err = r.err,
                                          !.msg = r.msg, !.object = T(str_type)]
    /\ UNCHANGED <<schema, mut_schema, map_values, workload, keeps_data, calls, alloc>>

GetStrType ==
    /\ result.op # "get_str_type"
    /\ \E r \in {get_str_type(specification.sep_types)} :
        result' = [NoResult EXCEPT !.op = "get_str_type", !.err = r.err,
                                   !.msg = r.msg, !.object = r.str]
    /\ UNCHANGED <<schema, mut_schema, specification, map_values, workload,
                   keeps_data, calls, alloc>>

TypeNext == SetTypes \/ GetStrType

TypeSpec == TypeInit /\ [][TypeNext]_vars

----------------------------------------------------------------------------
(* The id of a document without one, step by step *)

\* Schema::index has entered the uuid or the keyword case: the draft holds
\* the id's type, the handler has one shard or more.
IdInit ==
    /\ schema = get_initial_schema
    /\ mut_schema = get_initial_schema
    /\ specification = start_specification(default_spc)
    /\ map_values = <<>>
    /\ result = NoResult
    /\ workload = "none"
    /\ keeps_data = FALSE
    /\ calls = 0
    /\ alloc \in {start_alloc(kind, endpoints) :
                    kind \in {"uuid", "keyword"}, endpoints \in Endpoints}

\* The catch clause of Schema::index.
Thrown(a) ==
    /\ alloc' = a
    /\ mut_schema' = NoDraft
    /\ result' = [NoResult EXCEPT !.op = "index", !.err = a.err, !.dropped = TRUE]

Probe ==
    /\ alloc.pc = "probe"
    /\ \E a \in {probe(alloc)} :
        IF a.err # "" THEN Thrown(a)
        ELSE alloc' = a /\ UNCHANGED <<mut_schema, result>>
    /\ UNCHANGED <<schema, specification, map_values, workload, keeps_data, calls>>

Generate ==
    /\ alloc.pc = "generate"
    /\ \E tmp_shard_num \in 0..(Len(alloc.endpoints) - 1) :
        alloc' = generate(alloc, tmp_shard_num)
    /\ UNCHANGED <<schema, mut_schema, specification, map_values, result, workload,
                   keeps_data, calls>>

\* After the loop: the keyword case has set document_id to the candidate it
\* kept; the uuid case reads it back from the term it kept, and what
\* Unserialise::uuid does with an empty string is not known here.
Finish ==
    /\ alloc.pc = "finish"
    /\ \E throws \in (IF alloc.kind = "uuid" /\ alloc.term_id = 0 THEN BOOLEAN ELSE {FALSE}) :
        IF throws
        THEN Thrown([alloc EXCEPT !.pc = "done", !.err = "SerialisationError"])
        ELSE /\ alloc' = [alloc EXCEPT !.pc = "done"]
             /\ result' = [NoResult EXCEPT
                    !.op = "index",
                    !.document_id = IF alloc.term_id = 0 THEN NoId
                                    ELSE IF alloc.kind = "uuid" THEN GeneratedUUID
                                    ELSE GeneratedKeyword]
             /\ UNCHANGED mut_schema
    /\ UNCHANGED <<schema, specification, map_values, workload, keeps_data, calls>>

IdNext == Probe \/ Generate \/ Finish

IdSpec == IdInit /\ [][IdNext]_vars

----------------------------------------------------------------------------
(* Properties *)

\* A step that is one call of index, update or write.
IsCall == calls' = calls + 1

\* C1: when index, update or write raises, the call leaves no draft, and the
\* newest schema content is the published content as it was before the call.
C1_ErrorDropsDraft ==
    [][IsCall /\ result'.err # ""
        => /\ mut_schema'.null
           /\ schema'.n = schema.n
           /\ schema'.top = schema.top]_vars

\* A first call that raised after it had built a draft.
C1_Witness ==
    /\ calls = 1
    /\ result.err # ""
    /\ result.dropped
    /\ mut_schema.null

NewestOf(s, m) == IF m.null THEN s ELSE m

Newest == NewestOf(schema, mut_schema)

\* The concrete type the tree holds for the field at path p.
ConcreteAt(tree, p) ==
    IF HasProp(tree, p, "_type") THEN _get_type(tree.n[p]["_type"])[SPC_CONCRETE_TYPE]
    ELSE "empty"

\* The values the last call indexed, as positions of its log.
Indexed == {i \in DOMAIN result.log : result.log[i].op = "index_item"}

IndexedPath(i) == result.log[i].spc.full_meta_name

\* C3: the concrete type a value of a field was indexed with is the concrete
\* type the field has in the schema after the document: once a value has made
\* the field concrete, no later value changes the type.
C3_ConcreteTypeStable ==
    result.op = "index" /\ result.err = ""
        => \A i \in Indexed :
              ConcreteAt(Newest, IndexedPath(i))
                  = result.log[i].spc.sep_types[SPC_CONCRETE_TYPE]

\* The slot the tree holds for the field at path p.
SlotAt(tree, p) == IF HasProp(tree, p, "_slot") THEN tree.n[p]["_slot"] ELSE BAD_VALUENO

\* C4: the slot a value of a field was indexed with is the slot the schema
\* holds for the field after the document: once a value has been indexed with
\* a slot, the slot of the field does not change.
C4_SlotStable ==
    result.op = "index" /\ result.err = ""
        => \A i \in Indexed :
              result.log[i].spc.slot # BAD_VALUENO
              => SlotAt(Newest, IndexedPath(i)) = result.log[i].spc.slot

\* The field at path q has store = false: persisted in the newest schema, or
\* as the last call entered it.
StoreOff(q) ==
    \/ HasProp(Newest, q, "_store") /\ Newest.n[q]["_store"] = FALSE
    \/ \E j \in DOMAIN result.log :
          /\ result.log[j].op = "field" /\ IndexedPath(j) = q
          /\ ~result.log[j].spc.store

\* The paths of the ancestors of the field at path p, the root included.
Ancestors(p) == {SubSeq(p, 1, k) : k \in 0..(Len(p) - 1)}

\* C5: a field entered or indexed under an ancestor that has store = false
\* has store = false itself, whatever `_store` the field declares or persists.
C5_StoreInherited ==
    result.op = "index" /\ result.err = ""
        => \A i \in DOMAIN result.log :
              (\E q \in Ancestors(IndexedPath(i)) : StoreOff(q))
              => ~result.log[i].spc.store

\* The value a document gives at path p (from position k of the path on).
RECURSIVE ObjectAt(_, _, _)
ObjectAt(object, p, k) ==
    IF k > Len(p) THEN object
    ELSE IF HasKey(object, p[k]) THEN ObjectAt(At(object, p[k]), p, k + 1)
    ELSE NoValue

\* The document declares a concrete `_type` for the field at path p.
DeclaresType(object, p) ==
    \E o \in {ObjectAt(object, p, 1)} :
        /\ HasKey(o, "_type") /\ is_string(At(o, "_type"))
        /\ _get_type(At(o, "_type").items)[SPC_CONCRETE_TYPE] # "empty"

IsValue(v) == v.t \in {"pos", "neg", "float", "bool", "str"}

\* The document gives the field at path p a value.
GivesValue(object, p) ==
    \E o \in {ObjectAt(object, p, 1)} :
        IsValue(o) \/ (HasKey(o, "_value") /\ IsValue(At(o, "_value")))

\* A log entry of a strict field entered without a type and without foreign.
Typeless(e) ==
    /\ e.op = "field" /\ e.spc.strict /\ ~e.spc.concrete /\ e.spc.endpoint = ""
    /\ e.spc.sep_types[SPC_CONCRETE_TYPE] = "empty"
    /\ e.spc.sep_types[SPC_FOREIGN_TYPE] = "empty"

\* The values of strict fields the call indexed had a type that was persisted
\* before the call or declared by the document; `Except` are the paths left out.
NoTypeInferred(Except) ==
    \A i \in DOMAIN result'.log :
        /\ result'.log[i].op = "index_item" /\ result'.log[i].spc.strict
        /\ result'.log[i].spc.full_meta_name \notin Except
        => \/ ConcreteAt(Newest, result'.log[i].spc.full_meta_name) # "empty"
           \/ DeclaresType(result'.object, result'.log[i].spc.full_meta_name)

\* A strict field entered without a type and given a value raises
\* MissingTypeError.
MissingTypeRaised ==
    \A j \in DOMAIN result'.log :
        Typeless(result'.log[j])
           /\ GivesValue(result'.object, result'.log[j].spc.full_meta_name)
        => result'.err = "MissingTypeError"

\* C6 (as stated): in strict mode a value of a field without declared or
\* persisted type raises MissingTypeError; no type is inferred from the value,
\* for any field.
C6_StrictNeverInfers ==
    [][IsCall /\ result'.op = "index" => NoTypeInferred({}) /\ MissingTypeRaised]_vars

\* C6 (amended): in strict mode a value of a field other than the document id
\* `_id`, without declared or persisted type, raises MissingTypeError and no
\* type is inferred from the value; the type of `_id` is detected from the id.
C6_StrictRaisesMissingType ==
    [][IsCall /\ result'.op = "index"
        => NoTypeInferred({<<ID_FIELD_NAME>>}) /\ MissingTypeRaised]_vars

\* A strict root whose typeless field f was given a value: the call raised.
C6_Witness ==
    /\ result.op = "index" /\ result.err = "MissingTypeError"
    /\ \E j \in DOMAIN result.log :
          Typeless(result.log[j]) /\ IndexedPath(j) = <<"f">>
          /\ GivesValue(result.object, <<"f">>)

\* The field at path p of the tree is strict: the nearest `_strict` on the way
\* from the root to the field is true.
StrictAt(tree, p) ==
    \E k \in 0..Len(p) :
        /\ HasProp(tree, SubSeq(p, 1, k), "_strict")
        /\ tree.n[SubSeq(p, 1, k)]["_strict"]
        /\ \A m \in (k + 1)..Len(p) : ~HasProp(tree, SubSeq(p, 1, m), "_strict")

\* The words of the `_type` the tree holds for the field at path p.
TypeWordsAt(tree, p) ==
    IF HasProp(tree, p, "_type") THEN SeqToSet(tree.n[p]["_type"]) ELSE {}

\* The words of the `_type` the document declares for the field at path p.
DeclaredWords(object, p) ==
    LET o == ObjectAt(object, p, 1)
    IN  IF HasKey(o, "_type") /\ is_string(At(o, "_type"))
        THEN SeqToSet(At(o, "_type").items) ELSE {}

\* The words of `_type` a step adds to the field at path p.
AddedWords(p) ==
    TypeWordsAt(NewestOf(schema', mut_schema'), p) \ TypeWordsAt(Newest, p)

\* C7: a document indexed under strict mode adds to the newest schema, for the
\* nodes of a strict subtree, no `_type` word, structural or concrete, that
\* the document does not declare for the node.
C7_StrictNoImplicitType ==
    [][IsCall /\ result'.op = "index" /\ result'.err = ""
        => \A p \in DOMAIN NewestOf(schema', mut_schema').n :
              StrictAt(NewestOf(schema', mut_schema'), p)
              => AddedWords(p) \subseteq DeclaredWords(result'.object, p)]_vars

\* The last call entered the field at path q as a foreign field.
EnteredForeign(q) ==
    \E j \in DOMAIN result.log :
        /\ result.log[j].op = "field" /\ IndexedPath(j) = q
        /\ result.log[j].spc.sep_types[SPC_FOREIGN_TYPE] = "foreign"

\* C8: a call that indexes a value for a foreign field, or enters a child of
\* a foreign field, does not succeed.
C8_ForeignCarriesNothing ==
    result.op = "index" /\ result.err = ""
        => \A i \in DOMAIN result.log :
              /\ result.log[i].op = "index_item"
                    => result.log[i].spc.sep_types[SPC_FOREIGN_TYPE] # "foreign"
              /\ result.log[i].op = "field" /\ Len(IndexedPath(i)) > 0
                    => ~EnteredForeign(SubSeq(IndexedPath(i), 1, Len(IndexedPath(i)) - 1))

\* The value the document gives the field at path p.
ValueGiven(object, p) ==
    LET o == ObjectAt(object, p, 1)
    IN  IF HasKey(o, "_value") THEN At(o, "_value") ELSE o

\* The terms index_simple_term is in charge of: every term and posting of the
\* document that the term generator did not make.
SimpleTerms(doc) == {t \in doc.terms \cup doc.postings : ~t.generated}

\* The field of log entry j was entered with terms to index, for a string the
\* document gives it, and the term of that string is over the size limit.
OversizeTerm(j) ==
    /\ result.log[j].op = "field"
    /\ "field_terms" \in result.log[j].spc.index
    /\ result.log[j].spc.sep_types[SPC_CONCRETE_TYPE] \in {"keyword", "uuid"}
    /\ is_string(ValueGiven(result.object, IndexedPath(j)))
    /\ prefixed(SerialiseString(ValueGiven(result.object, IndexedPath(j))),
                result.log[j].spc.prefix,
                get_ctype(result.log[j].spc.sep_types[SPC_CONCRETE_TYPE])).size
          > MAX_TERM_SIZE

\* An oversize term of a keyword is rejected as too long, an oversize term of
\* another type is skipped and the call goes on.
OversizeHandled ==
    \A j \in DOMAIN result.log :
        OversizeTerm(j)
        => IF result.log[j].spc.sep_types[SPC_CONCRETE_TYPE] = "keyword"
           THEN result.err # "" /\ result.msg = "Keyword too long"
           ELSE result.err = ""

\* C9 (as stated): the document of a call holds no term, posting or boolean
\* term over the size limit; an oversize keyword is rejected as too long and
\* an oversize term of another type is skipped without raising.
C9_NoOversizeTerm ==
    result.op = "index"
        => /\ \A t \in SimpleTerms(result.doc) \cup result.doc.bterms :
                  t.size <= MAX_TERM_SIZE
           /\ OversizeHandled

\* C9 (amended): the same for the terms and postings of field values; the
\* rejection of the keyword is a ClientError; the boolean term of the document
\* id is left out, it is added whatever its size.
C9_NoOversizeFieldTerm ==
    result.op = "index"
        => /\ \A t \in SimpleTerms(result.doc) : t.size <= MAX_TERM_SIZE
           /\ OversizeHandled
           /\ result.msg = "Keyword too long" => result.err = "ClientError"

\* An oversize uuid term was skipped: the call succeeded and the field has no
\* term in the document.
C9_Witness ==
    /\ result.op = "index" /\ result.err = ""
    /\ \E j \in DOMAIN result.log :
          /\ OversizeTerm(j) /\ IndexedPath(j) = <<"u">>
          /\ \A t \in SimpleTerms(result.doc) : t.prefix # result.log[j].spc.prefix

\* An oversize keyword term was rejected.
C9_WitnessKeyword ==
    /\ result.op = "index" /\ result.err = "ClientError"
    /\ \E j \in DOMAIN result.log : OversizeTerm(j) /\ IndexedPath(j) = <<"k">>

\* C10: the document of a call never holds the sentinel term "QN\x80", as a
\* term, as a posting or as the boolean term of the id.
C10_NoSentinelTerm ==
    SentinelTerm \notin result.doc.terms \cup result.doc.postings \cup result.doc.bterms

\* A document was indexed under the numeric id zero, whose term is the
\* sentinel: the `_id` field was indexed with the value 0 and the call succeeded.
C10_Witness ==
    /\ result.op = "index" /\ result.err = ""
    /\ \E i \in Indexed :
          /\ IndexedPath(i) = <<ID_FIELD_NAME>>
          /\ result.log[i].value = Pos(0)
          /\ "field_terms" \in result.log[i].spc.index
          /\ prefixed(SerialiseNumber(Pos(0)), result.log[i].spc.prefix,
                      get_ctype(result.log[i].spc.sep_types[SPC_CONCRETE_TYPE]))
                = SentinelTerm

\* The boolean terms partial paths gave: prefixes alone, with no type byte
\* and no value.
PathTerms == {t \in result.doc.bterms : t.ctype = "" /\ t.ser = NoSer}

\* C11: after any index call the boolean terms of the document do not
\* contain the sentinel term "QN\x80": the id term is left out when it is
\* the sentinel, and no partial-path term equals it.
C11_NoSentinelBooleanTerm ==
    result.op = "index" => SentinelTerm \notin result.doc.bterms

\* A document was indexed under the numeric id zero, with partial paths: it
\* has the boolean terms of its partial paths and no boolean term of the id.
C11_Witness ==
    /\ result.op = "index" /\ result.err = ""
    /\ result.document_id = Pos(0)
    /\ \E i \in Indexed :
          /\ IndexedPath(i) = <<ID_FIELD_NAME>>
          /\ result.log[i].value = Pos(0)
          /\ get_ctype(result.log[i].spc.sep_types[SPC_CONCRETE_TYPE]) = "N"
    /\ \E t \in PathTerms : Len(t.prefix) = 2
    /\ \E t \in PathTerms : Len(t.prefix) = 3
    /\ result.doc.bterms = PathTerms

\* C12: a type tuple other than the all-empty one that get_str_type renders
\* is given back by set_types from the rendered string.
C12_RoundTrip ==
    [][(/\ result.op = "get_str_type" /\ result.err = ""
        /\ specification.sep_types # EmptyTypes
        /\ result'.op = "set_types" /\ result'.object = result.object)
       => (result'.err = "" /\ specification'.sep_types = specification.sep_types)]_vars

\* The words of the string the last set_types was given.
GivenWords == SeqToSet(result.object.items)

\* C13: for a set of structural words plus a concrete word, every ordering of
\* the words is accepted by set_types and yields the same four types.
C13_OrderInsensitive ==
    (/\ result.op = "set_types"
     /\ Cardinality(GivenWords \cap ConcreteWords) = 1)
    => /\ result.err = ""
       /\ \A p \in Orderings(GivenWords) : _get_type(p) = specification.sep_types

\* The string with each spelling replaced by its synonym.
OtherSpelling(words) ==
    [i \in DOMAIN words |->
        IF words[i] = "term" THEN "keyword"
        ELSE IF words[i] = "keyword" THEN "term"
        ELSE IF words[i] = "float" THEN "floating"
        ELSE IF words[i] = "floating" THEN "float"
        ELSE words[i]]

\* C14: when set_types accepts a string, the string with term/keyword or
\* float/floating replaced by the other spelling is accepted too and yields
\* the same four types.
C14_Synonyms ==
    (result.op = "set_types" /\ result.err = "")
    => _get_type(OtherSpelling(result.object.items)) = specification.sep_types

\* The last call was an update that returned.
UpdateReturned == result.op = "update" /\ result.err = ""

\* C15 as stated: update returns true exactly when it replaced the draft by a
\* foreign redirect.
C15_TrueIffRedirect ==
    UpdateReturned => (result.ret <=> IsRedirect(mut_schema))

\* C15: update returns true exactly when it replaced the draft by a foreign
\* redirect read from a map that holds more than `_type` and `_endpoint`;
\* for an endpoint string, for a map of just the two keys and for every
\* object that is no redirect it returns false.
C15_TrueIffRedirectWithMore ==
    UpdateReturned =>
        (result.ret <=> (/\ IsRedirect(mut_schema)
                         /\ is_map(result.object)
                         /\ Len(result.object.items) # 2))

C15_Witness ==
    /\ UpdateReturned
    /\ result.ret
    /\ IsRedirect(mut_schema)
    /\ mut_schema.top["_endpoint"] = At(result.object, "_endpoint")
    /\ HasKey(result.object, "description")

\* The last call was an update or a write of a map with the key `_schemas`.
GaveSchemas ==
    /\ result.op \in {"update", "write"}
    /\ is_map(result.object)
    /\ HasKey(result.object, "_schemas")

\* C16: an update or write of an object with the key `_schemas` is rejected
\* with an error, and the draft never holds `_schemas`.
C16_SchemasRejected ==
    /\ GaveSchemas => result.err = "ClientError"
    /\ mut_schema.null \/ "_schemas" \notin DOMAIN mut_schema.top

\* C17 as stated: an index call without id generates at most 10 candidates.
C17_AtMostTen == alloc.generated <= 10

\* C17: an index call without id generates at most 11 candidates and then
\* leaves the loop: while the loop runs, the number of candidates generated
\* is the distance of its counter from 10, and the counter is not negative.
C17_AtMostEleven ==
    /\ alloc.generated <= FIRST_TRY + 1
    /\ alloc.pc = "generate" => alloc.t >= 0 /\ alloc.generated = FIRST_TRY - alloc.t
    /\ alloc.pc \in {"finish", "done"} /\ alloc.err = ""
         => alloc.t = -1 \/ alloc.term_shard = alloc.shard_num

C17_Witness ==
    /\ alloc.pc = "done"
    /\ alloc.generated = FIRST_TRY + 1
    /\ alloc.t = -1
    /\ result.op = "index" /\ result.err = ""
    /\ result.document_id # NoId

\* The shards of the handler whose node is active.
ActiveShards == {s \in 0..(Len(alloc.endpoints) - 1) : alloc.endpoints[s + 1].active}

\* The active shards with the least document count.
LeastLoaded ==
    {s \in ActiveShards :
        \A s2 \in ActiveShards :
            alloc.endpoints[s + 1].doccount <= alloc.endpoints[s2 + 1].doccount}

\* C18: with the id type uuid, the candidate used is one that hashes to the
\* least-loaded active shard, or else it is the last candidate generated.
C18_TargetOrLast ==
    (/\ alloc.pc = "done" /\ alloc.kind = "uuid"
     /\ ActiveShards # {}
     /\ \A s \in ActiveShards : ~alloc.endpoints[s + 1].throws)
    => \/ alloc.term_id # 0 /\ alloc.term_shard \in LeastLoaded
       \/ alloc.term_id = alloc.generated

\* The first loop is at an active shard whose count cannot be read.
ProbeFails ==
    /\ alloc.pc = "probe"
    /\ alloc.endpoints[alloc.n + 1].active
    /\ alloc.endpoints[alloc.n + 1].throws

\* C19: a failing read of a shard's document count raises nothing and keeps
\* the draft; the shard does not change the least used shard found so far,
\* and the loop goes on to the next shard or to the candidates.
C19_ProbeFailureTolerated ==
    [][ProbeFails =>
        /\ alloc'.err = ""
        /\ mut_schema' = mut_schema /\ ~mut_schema'.null
        /\ result'.err = ""
        /\ alloc'.min_doccount = alloc.min_doccount
        /\ alloc'.shard_num = alloc.shard_num
        /\ alloc'.n = alloc.n + 1
        /\ alloc'.pc = (IF alloc'.n < Len(alloc.endpoints) THEN "probe" ELSE "generate")]_vars

C19_Witness ==
    /\ alloc.pc = "done"
    /\ alloc.endpoints[1].active /\ alloc.endpoints[1].throws
    /\ Len(alloc.endpoints) = 2
    /\ alloc.endpoints[2].active /\ ~alloc.endpoints[2].throws
    /\ alloc.shard_num = 1
    /\ alloc.term_id # 0 /\ alloc.term_shard = 1
    /\ result.err = "" /\ result.document_id # NoId
    /\ ~mut_schema.null

\* The keys of a document's object that are fields.
IsField(key) == ~is_reserved(key) \/ key = ID_FIELD_NAME

\* The name of the schema field a key of a document stands for: UUIDs share
\* the uuid field.
FieldOf(key) ==
    IF possiblyUUID(key) /\ SerialiseUUID(key) # "" THEN UUID_FIELD_NAME ELSE key

RECURSIVE DeclaredFrom(_, _, _), DeclaredItems(_, _, _)
\* The paths of the fields of the object with the keys kv[i..], in the order
\* the object declares them: each field followed by its own fields, the
\* field of an array once for each item.
DeclaredFrom(kv, i, path) ==
    IF i > Len(kv) THEN <<>>
    ELSE (IF ~IsField(kv[i][1]) THEN <<>>
          ELSE IF is_map(kv[i][2])
          THEN <<Append(path, FieldOf(kv[i][1]))>>
                   \o DeclaredFrom(kv[i][2].items, 1, Append(path, FieldOf(kv[i][1])))
          ELSE IF is_array(kv[i][2])
          THEN DeclaredItems(kv[i][2].items, 1, Append(path, FieldOf(kv[i][1])))
          ELSE <<Append(path, FieldOf(kv[i][1]))>>)
         \o DeclaredFrom(kv, i + 1, path)

DeclaredItems(items, j, path) ==
    IF j > Len(items) THEN <<>>
    ELSE <<path>>
         \o (IF is_map(items[j]) THEN DeclaredFrom(items[j].items, 1, path) ELSE <<>>)
         \o DeclaredItems(items, j + 1, path)

\* The fields of the document given to the last call, in declaration order;
\* an id the document does not declare is the last field.
DeclaredFields ==
    DeclaredFrom(result.object.items, 1, <<>>)
        \o (IF HasKey(result.object, ID_FIELD_NAME) THEN <<>> ELSE << <<ID_FIELD_NAME>> >>)

\* The fields the last call entered, in the order it entered them.
EnteredFields ==
    (CHOOSE the \in {
        [k \in DOMAIN entered |-> entered[k].spc.full_meta_name]
        : entered \in {SelectSeq(result.log, LAMBDA e : e.op = "field")}} : TRUE)

\* C20: an index call enters the fields of the document in the order the
\* object declares them, at every level.
C20_DeclarationOrder ==
    result.op = "index" /\ result.err = "" => EnteredFields = DeclaredFields

C20_Witness ==
    /\ result.op = "index" /\ result.err = ""
    /\ EnteredFields = << <<"b">>, <<"b", "y">>, <<"b", "x">>, <<"a">>, <<ID_FIELD_NAME>> >>
    /\ DOMAIN result.data = {<<"b">>, <<"b", "y">>, <<"b", "x">>, <<"a">>, <<ID_FIELD_NAME>>}


\* The last call indexed a document whose root holds two sibling keys that
\* are spellings of the same UUID.
GaveSameFieldTwice ==
    /\ result.op = "index"
    /\ is_map(result.object)
    /\ \E i, j \in DOMAIN result.object.items :
          /\ i < j
          /\ possiblyUUID(result.object.items[i][1])
          /\ normalize_uuid(result.object.items[i][1])
                = normalize_uuid(result.object.items[j][1])

\* C21: a document with two sibling keys that resolve to the same field name
\* (two textual forms of one UUID) is rejected: the index call fails instead
\* of merging the values of the two keys.
C21_SameFieldRejected == GaveSameFieldTwice => result.err # ""


----------------------------------------------------------------------------
(* Accuracies of a field that becomes concrete *)

\* The fields the last call entered while they were not concrete.
EnteredUntyped ==
    {e \in SeqToSet(result.log) : e.op = "field" /\ ~e.spc.concrete}

\* The concrete type the draft holds for a field, "empty" when it holds none.
PersistedType(path) ==
    IF ~mut_schema.null /\ HasProp(mut_schema, path, "_type")
    THEN _get_type(mut_schema.n[path]["_type"])[SPC_CONCRETE_TYPE]
    ELSE "empty"

\* The buckets of an `_accuracy` list, persisted or given by a document: a
\* unit by its name, a level or a magnitude by its number.
Bucket(t, v) ==
    IF is_string(v) THEN v.s
    ELSE IF t \in DateTypes THEN _get_str_acc_date(UnitTime(v.n))
    ELSE v.n

Buckets(t, items) == {Bucket(t, items[i]) : i \in DOMAIN items}

PersistedAccuracy(path) ==
    IF HasProp(mut_schema, path, "_accuracy")
    THEN Buckets(PersistedType(path), mut_schema.n[path]["_accuracy"])
    ELSE {}

\* The fields the last call made concrete, with the `_accuracy` the document
\* gave for them or without one.
MadeConcrete(given) ==
    {e \in EnteredUntyped :
        /\ (e.spc.doc_acc # NoValue) = given
        /\ PersistedType(e.spc.full_meta_name) \in AccuracyTypes}

\* C22: a field first made concrete with an `_accuracy` list of the document
\* persists exactly the buckets of the list and none of the defaults of its
\* type.
C22_SuppliedAccuracyPersisted ==
    result.op = "index" /\ result.err = "" =>
        \A e \in MadeConcrete(TRUE) :
            PersistedAccuracy(e.spc.full_meta_name)
                = Buckets(PersistedType(e.spc.full_meta_name), e.spc.doc_acc.items)

\* C24: a date field that becomes concrete without an `_accuracy` of the
\* document persists the default date table: day, month, year, decade and
\* century.
C24_DateDefaultAccuracy ==
    result.op = "index" /\ result.err = "" =>
        \A e \in MadeConcrete(FALSE) :
            PersistedType(e.spc.full_meta_name) = "date" =>
                PersistedAccuracy(e.spc.full_meta_name)
                    = {_get_str_acc_date(def_accuracy_date[i]) : i \in DOMAIN def_accuracy_date}


----------------------------------------------------------------------------
(* The type of the id *)

\* The concrete type a tree holds for `_id`, "empty" when it holds none.
IdTypeOf(tree) ==
    IF ~tree.null /\ HasProp(tree, <<ID_FIELD_NAME>>, "_type")
    THEN _get_type(tree.n[<<ID_FIELD_NAME>>]["_type"])[SPC_CONCRETE_TYPE]
    ELSE "empty"

\* The id type the next call finds: that of the draft when there is one.
PersistedIdType == IdTypeOf(IF mut_schema.null THEN schema ELSE mut_schema)

\* The id specifications the last call built id terms with.
IdSpecifications == SeqToSet(result.ids)

\* An index call that succeeds on a schema that holds an id type.
LaterDocument ==
    /\ PersistedIdType # "empty"
    /\ result'.op = "index"
    /\ result'.err = ""

\* C23 as stated: once an id type is persisted, every later document builds
\* its id term with an id specification of that type and bool_term = true,
\* and leaves the persisted id type as it was.
C23_IdTypeKeptBoolTerm ==
    [][LaterDocument =>
          /\ PersistedIdType' = PersistedIdType
          /\ \A e \in IdSpecifications' :
                e.spc.type = PersistedIdType /\ e.spc.bool_term]_vars

\* C23: once an id type is persisted, every later document builds its id
\* term with an id specification of that type, with bool_term = true when the
\* type is keyword, and leaves the persisted id type as it was.
C23_IdTypeKept ==
    [][LaterDocument =>
          /\ PersistedIdType' = PersistedIdType
          /\ \A e \in IdSpecifications' :
                /\ e.spc.type = PersistedIdType
                /\ PersistedIdType = "keyword" => e.spc.bool_term]_vars

\* A keyword id persisted by an earlier document and a later document that
\* declares nothing about `_id`.
C23_Witness ==
    /\ result.op = "index"
    /\ result.err = ""
    /\ ~HasKey(result.object, ID_FIELD_NAME)
    /\ PersistedIdType = "keyword"
    /\ \E e \in IdSpecifications : e.spc.type = "keyword" /\ e.spc.bool_term


\* The `_bool_term` the draft holds for a field: absent, it is the default.
PersistedBoolTerm(path) ==
    IF HasProp(mut_schema, path, "_bool_term") THEN mut_schema.n[path]["_bool_term"]
    ELSE default_spc.bool_term

\* The keyword fields the last call made concrete with no `_bool_term` given.
KeywordsMade ==
    {e \in EnteredUntyped :
        /\ ~e.spc.has_bool_term
        /\ PersistedType(e.spc.full_meta_name) = "keyword"}

\* The specifications the last call indexed the values of a field with.
IndexedWith(path) ==
    {e.spc : e \in {i \in SeqToSet(result.log) :
                        i.op = "index_item" /\ i.spc.full_meta_name = path}}

\* C25: a keyword field made concrete with no `_bool_term` declared has
\* bool_term true exactly when its meta-name has an uppercase character, in
\* the specification its values are indexed with and in what is persisted.
C25_BoolTermByName ==
    result.err = "" =>
        \A e \in KeywordsMade :
            /\ PersistedBoolTerm(e.spc.full_meta_name) = hasupper(e.spc.meta_name)
            /\ \A spc \in IndexedWith(e.spc.full_meta_name) :
                   spc.bool_term = hasupper(e.spc.meta_name)

C25_Witness ==
    /\ result.err = ""
    /\ \E e \in KeywordsMade :
           /\ hasupper(e.spc.meta_name)
           /\ PersistedBoolTerm(e.spc.full_meta_name)
           /\ \E spc \in IndexedWith(e.spc.full_meta_name) : spc.bool_term


\* What the draft holds for the root `_id` field under a key.
IdProp(key) == mut_schema.n[<<ID_FIELD_NAME>>][key]
IdHolds(key) == ~mut_schema.null /\ HasProp(mut_schema, <<ID_FIELD_NAME>>, key)

\* The specifications the last call entered the root `_id` field with.
IdEntered ==
    {e.spc : e \in {f \in SeqToSet(result.log) :
                        f.op = "field" /\ f.spc.full_meta_name = <<ID_FIELD_NAME>>}}

\* C26: the root `_id` field has bool_term = true and index = field_all, in
\* the specification it is entered with when it is new and in what is
\* persisted for it, whatever `_bool_term` or `_index` the document declares.
C26_IdForced ==
    result.err = "" =>
        /\ IdHolds("_bool_term") => IdProp("_bool_term") = TRUE
        /\ IdHolds("_index") => IdProp("_index") = "field_all"
        /\ \A spc \in IdEntered : spc.has_index => spc.index = FIELD_ALL


\* The storage-internal keys the readable schema hides.
HiddenKeys == {"_prefix", "_slot", "_acc_prefix"}

GeoIndexed ==
    {e \in SeqToSet(result.log) :
        e.op = "index_item" /\ e.spc.sep_types[SPC_CONCRETE_TYPE] = "geo"}

\* The geometries a field was given, in their order: item by item, or as the
\* array of a `_value`.
RECURSIVE Given(_, _)
Given(path, i) ==
    IF i > Len(result.log) THEN <<>>
    ELSE (IF result.log[i].op = "index_item" /\ result.log[i].spc.full_meta_name = path
          THEN (IF is_array(result.log[i].value) THEN result.log[i].value.items
                ELSE <<result.log[i].value>>)
          ELSE <<>>) \o Given(path, i + 1)

\* The geometries without those that repeat the one just before them.
Squeezed(items) ==
    SelectSeq([i \in DOMAIN items |->
                  IF i > 1 /\ items[i] = items[i - 1] THEN Nil ELSE items[i]],
              LAMBDA v : v # Nil)

\* The slot after the geometries are added to it one by one.
RECURSIVE Accumulated(_, _, _)
Accumulated(set, items, i) ==
    IF i > Len(items) THEN set
    ELSE Accumulated(merge_geospatial_values(set, getRanges(items[i].s),
                                             getCentroids(items[i].s)), items, i + 1)

\* C28: a geometry added to a slot a second time in a row leaves the slot
\* with a single element, the one it held after the first addition: the slot
\* of a document is what it would be had every geometry been given once.
C28_GeoIdempotent ==
    result.op = "index" /\ result.err = "" =>
        \A e \in GeoIndexed :
            /\ Cardinality(map_values[e.spc.slot]) = 1
            /\ map_values[e.spc.slot]
                   = Accumulated({}, Squeezed(Given(e.spc.full_meta_name, 1)), 1)

C28_Witness ==
    /\ result.op = "index"
    /\ result.err = ""
    /\ \E e \in GeoIndexed :
           /\ Len(Given(e.spc.full_meta_name, 1)) = 3
           /\ Len(Squeezed(Given(e.spc.full_meta_name, 1))) = 2
           /\ Cardinality(map_values[e.spc.slot]) = 1

\* The values whose type the last call guessed, each with the specification
\* that left the guess.
Guesses == {e \in SeqToSet(result.log) : e.op = "guess"}

GuessedType(e) == e.spc.sep_types[SPC_CONCRETE_TYPE]

\* The types a detection flag stands for.
DetectedTypes(flag) ==
    CASE flag = "date_detection" -> {"date"}
      [] flag = "datetime_detection" -> {"datetime"}
      [] flag = "time_detection" -> {"time"}
      [] flag = "timedelta_detection" -> {"timedelta"}
      [] flag = "numeric_detection" -> {"positive", "integer", "floating"}
      [] flag = "geo_detection" -> {"geo"}
      [] flag = "bool_detection" -> {"boolean"}
      [] flag = "text_detection" -> {"text"}
      [] flag = "uuid_detection" -> {"uuid"}

DetectionFlags == {DetectionFlag(key) : key \in DetectionKeys}

\* The flags that are false in a specification.
FlagsOff(spc) == {flag \in DetectionFlags : ~spc[flag]}

AllDetected(spc) == FlagsOff(spc) = {}

\* The rule list for a string, in its order.
StringRule(str, bool_term) ==
    IF isUUID(str) THEN "uuid"
    ELSE IF isDate(str) THEN "date"
    ELSE IF isDatetime(str) THEN "datetime"
    ELSE IF isTime(str) THEN "time"
    ELSE IF isTimedelta(str) THEN "timedelta"
    ELSE IF str \in {"true", "false"} THEN "boolean"
    ELSE IF isEWKT(str) THEN "geo"
    ELSE IF bool_term THEN "keyword"
    ELSE "text"

\* The strings without a type the last call guessed the type of, outside
\* strict mode.
StringGuesses == {e \in Guesses : is_string(e.value) /\ ~e.spc.strict}

\* C30 as stated: a string without a type gets the type of the first rule
\* that takes it: uuid, date, datetime, time, timedelta, boolean, geo, then
\* keyword when bool_term is forced and text otherwise.
C30_StringRuleList ==
    \A e \in StringGuesses : GuessedType(e) = StringRule(e.value.s, e.spc.bool_term)

\* C30: with every detection flag true, a string without a type gets the type
\* of the first rule that takes it: uuid, date, datetime, time, timedelta,
\* boolean, geo, then keyword when bool_term is forced and text otherwise.
C30_StringRuleListDetecting ==
    \A e \in StringGuesses :
        AllDetected(e.spc) => GuessedType(e) = StringRule(e.value.s, e.spc.bool_term)

C30_Witness ==
    /\ result.err = ""
    /\ \A e \in StringGuesses : AllDetected(e.spc)
    /\ {GuessedType(e) : e \in StringGuesses}
           = {"uuid", "date", "datetime", "time", "timedelta", "boolean", "geo", "text"}


----------------------------------------------------------------------------
(* Locked properties of a concrete field *)

\* The properties of a field that cannot change once the field is concrete.
LockedKeys == {"_slot", "_type", "_accuracy", "_bool_term"} \cup DetectionKeys

\* The value v a document gives for the locked property key differs from the
\* one the tree holds for the field at path p.
Differs(tree, p, key, v) ==
    IF key = "_slot" THEN is_number(v) /\ UserSlot(v.n) # tree.n[p]["_slot"]
    ELSE IF key = "_type"
    THEN is_string(v) /\ _get_type(v.items)[SPC_CONCRETE_TYPE] # ConcreteAt(tree, p)
    ELSE IF key = "_accuracy"
    THEN /\ is_array(v)
         /\ AccuracySet(ConcreteAt(tree, p), v, FALSE).ok
         /\ Buckets(ConcreteAt(tree, p), v.items)
                # Buckets(ConcreteAt(tree, p), tree.n[p]["_accuracy"])
    ELSE is_boolean(v) /\ boolean(v) # tree.n[p][key]

\* The locked properties for which the document gives the concrete field at
\* path p of the tree a value other than the persisted one.
ChangedKeys(tree, object, p) ==
    {key \in LockedKeys :
        /\ ConcreteAt(tree, p) # "empty"
        /\ HasProp(tree, p, key)
        /\ HasKey(ObjectAt(object, p, 1), key)
        /\ Differs(tree, p, key, At(ObjectAt(object, p, 1), key))}

NotAllowedToChange ==
    {"It is not allowed to change _slot", "It is not allowed to change _type",
     "It is not allowed to change _accuracy", "It is not allowed to change _bool_term",
     "It is not allowed to change a detection flag", "It is not allowed to change _strict"}

\* C31: an index call whose document gives a concrete field a value other
\* than the persisted one for a locked property fails with ClientError "It is
\* not allowed to change ...": the published schema is left as it was and no
\* schema holds another value for the property afterwards.
C31_LockedRejected ==
    [][result'.op = "index" /\ IsCall =>
          \A p \in DOMAIN Newest.n :
              \A key \in ChangedKeys(Newest, result'.object, p) :
                  /\ result'.err = "ClientError"
                  /\ result'.msg \in NotAllowedToChange
                  /\ schema' = schema
                  /\ HasProp(NewestOf(schema', mut_schema'), p, key)
                        => NewestOf(schema', mut_schema').n[p][key] = Newest.n[p][key]]_vars


----------------------------------------------------------------------------
(* Schema::index_item on its own: the stored `_value` of one field *)

ItemTypes == {"uuid", "date", "datetime", "positive", "keyword", "text"}

\* The index modes: the combinations of the four quadrants.
IndexModes == SUBSET INDEX_ALL

\* A text longer than the values a slot of a string or of a text takes.
MaxSlotText == 100
LongText == Str("long text", MaxSlotText + 1)

\* Values that suit a field of the type.
ItemValues(t) ==
    IF t = "uuid" THEN {Str(UUID_compact, 11), Str(UUID_urn, 45)}
    ELSE IF t = "date" THEN {Str("2016-10-25", 10)}
    ELSE IF t = "datetime" THEN {Str("2016-10-25T12:30:00", 19)}
    ELSE IF t = "positive" THEN {Pos(1), Pos(2)}
    ELSE IF t = "text" THEN {Str("x", 1), LongText}
    ELSE {Str("x", 1), Str("y", 1)}

ItemArrays(t) ==
    {Arr(<<v>>) : v \in ItemValues(t)} \cup {Arr(<<v, w>>) : v, w \in ItemValues(t)}

\* A concrete, stored field of an array type, whose stored entry is empty.
ItemInit ==
    /\ schema = get_initial_schema
    /\ mut_schema = NoDraft
    /\ specification \in
          {[default_spc EXCEPT !.sep_types = <<"empty", "empty", "array", t>>,
                               !.concrete = TRUE, !.complete = TRUE,
                               !.full_meta_name = <<"f">>, !.meta_name = "f",
                               !.prefix = <<"f">>, !.local_prefix = "f",
                               !.slot = UserSlot(7),
                               !.index = index] :
               t \in ItemTypes, index \in IndexModes}
    /\ map_values = <<>>
    /\ result = NoResult
    /\ workload = "none"
    /\ keeps_data = FALSE
    /\ calls = 0
    /\ alloc = NoAlloc

\* The context of a call on the field: `data` is the entry of the field.
ItemCtx ==
    [NewCtx(specification, schema, mut_schema, keeps_data)
        EXCEPT !.data = result.data, !.mv = map_values]

ItemCalled(op, c, value) ==
    /\ result.err = ""
    /\ calls < MaxCalls
    /\ result' = Outcome(op, c, value, NoId)
    /\ map_values' = c.mv
    /\ calls' = calls + 1
    /\ UNCHANGED <<schema, mut_schema, specification, workload, keeps_data, alloc>>

\* index_item(doc, value, data, pos, add_value) with add_value = true.
IndexItem ==
    \E value \in ItemValues(specification.sep_types[SPC_CONCRETE_TYPE]) :
        ItemCalled("index_item", index_item(ItemCtx, value, TRUE), value)

\* index_item(doc, values, data, add_values) with add_values = true.
IndexItemValues ==
    \E values \in ItemArrays(specification.sep_types[SPC_CONCRETE_TYPE]) :
        ItemCalled("index_item_values", index_item_values(ItemCtx, values, TRUE), values)

ItemNext == IndexItem \/ IndexItemValues

ItemSpec == ItemInit /\ [][ItemNext]_vars

\* The stored `_value` of the field in an outcome.
StoredValue(r) == IF <<>> \in DOMAIN r.data THEN r.data[<<>>] ELSE Undefined

\* The items given to a call: the value, or the values of the array.
GivenItems(r) ==
    StoredForms(specification.sep_types[SPC_CONCRETE_TYPE],
                IF r.op = "index_item" THEN <<r.object>> ELSE r.object.items)

\* The policy: an undefined `_value` becomes the scalar (the array, for an
\* array of values), an array gets the values pushed, a scalar is wrapped
\* into an array followed by the values.
Appended(data_value, r) ==
    IF is_undefined(data_value)
    THEN (IF r.op = "index_item" THEN GivenItems(r)[1] ELSE Arr(GivenItems(r)))
    ELSE IF is_array(data_value) THEN Arr(data_value.items \o GivenItems(r))
    ELSE Arr(<<data_value>> \o GivenItems(r))

----------------------------------------------------------------------------
(* The value slots of a document *)

\* C33: the value slots written to a document hold only values added while
\* that document was indexed, whatever earlier calls left in map_values.
C33_SlotsOfThisDocument ==
    result.op = "index" /\ result.err = "" =>
        \A slot \in DOMAIN result.doc.values :
            \A ser \in result.doc.values[slot] : <<slot, ser>> \in result.added

\* A document indexed after a call that added values for another field (g, by
\* now concrete with its slot): the slot of g is not among the slots written.
C33_Witness ==
    /\ result.op = "index" /\ result.err = ""
    /\ calls >= 2
    /\ ~HasKey(result.object, "g")
    /\ HasProp(Newest, <<"g">>, "_slot")
    /\ DOMAIN result.doc.values # {}
    /\ Newest.n[<<"g">>]["_slot"] \notin DOMAIN result.doc.values


----------------------------------------------------------------------------
(* The specification around the children of an object and of an array *)

\* The specification without what belongs to the object at hand: its
\* `_value` and its `_accuracy`.
Settings(spc) == [spc EXCEPT !.value = NoValue, !.value_rec = NoValue, !.doc_acc = NoValue]

\* C34: every child of an object and every item of an array starts from the
\* specification its parent had before the first child was traversed.
C34_ChildrenStartFromParent ==
    result.op = "index" =>
        \A i \in DOMAIN result.starts :
            Settings(result.starts[i].spc) = Settings(result.starts[i].parent)

\* The field of a log entry has an endpoint of its own: persisted, or given
\* by the document.
OwnEndpoint(e) ==
    \/ HasProp(Newest, e.spc.full_meta_name, "_endpoint")
    \/ HasKey(ObjectAt(result.object, e.spc.full_meta_name, 1), "_endpoint")

\* C34, but for the endpoint: every child and every item starts from the
\* specification its parent had before the first child was traversed, with
\* the endpoint the sibling before it left; a field that is entered has no
\* endpoint but its own.
C34_ChildrenStartAlike ==
    result.op = "index" =>
        /\ \A i \in DOMAIN result.starts :
              [Settings(result.starts[i].spc) EXCEPT !.endpoint = ""]
                  = [Settings(result.starts[i].parent) EXCEPT !.endpoint = ""]
        /\ \A j \in DOMAIN result.log :
              result.log[j].op = "field" /\ result.log[j].spc.endpoint # ""
                  => OwnEndpoint(result.log[j])

\* A document whose field p turns `_store` off for itself: the sibling that
\* follows (the id) starts with the store flag of the root.
C34_Witness ==
    /\ result.op = "index" /\ result.err = ""
    /\ \E j \in DOMAIN result.log :
          /\ result.log[j].op = "field"
          /\ IndexedPath(j) = <<"p">>
          /\ ~result.log[j].spc.store
    /\ \E i \in DOMAIN result.starts :
          /\ result.starts[i].pos = 2
          /\ result.starts[i].spc.full_meta_name = <<>>
          /\ result.starts[i].spc.store


----------------------------------------------------------------------------
(* The quadrants of an index mode *)

\* What a call emitted: the terms under a prefix, the values of a slot.
TermsUnder(r, prefix) == {term \in r.doc.terms \cup r.doc.postings : term.prefix = prefix}
ValuesIn(r, slot) == {e \in r.added : e[1] = slot}
GlobalSlotOf(spc) == get_global(spc.sep_types[SPC_CONCRETE_TYPE]).slot

\* A string or text value over the size a slot takes.
OverSlotSize(spc, value) ==
    /\ spc.sep_types[SPC_CONCRETE_TYPE] \in {"string", "text"}
    /\ is_string(value) /\ value.len > MaxSlotText

----------------------------------------------------------------------------
(* The prefixes of the accuracies *)

\* GenerateTerms::integer and its siblings: one prefix is read per accuracy,
\* in step with the list; a read beyond the end of `acc_prefix` is marked.
BeyondTheEnd == "<beyond the end>"
GenerateTermsReads(accuracy, acc_prefix) ==
    [i \in DOMAIN accuracy |->
        IF i \in DOMAIN acc_prefix THEN acc_prefix[i] ELSE BeyondTheEnd]

\* The lists of a specification are parallel.
Parallel(accuracy, acc_prefix) == acc_prefix = get_acc_prefix(accuracy)

\* The lists a node persists, as a field is fed from them.
FedLists(tree, p) ==
    FeedKey(FeedKey(default_spc, tree.n[p], "_accuracy"), tree.n[p], "_acc_prefix")

PersistedParallel(tree) ==
    \A p \in DOMAIN tree.n :
        Parallel(FedLists(tree, p).accuracy, FedLists(tree, p).acc_prefix)

\* C36: the prefixes of every field are parallel to its accuracies, in the
\* schema after every call and in the specification the values of a field
\* are indexed with, so that no accuracy reads a prefix beyond the end.
C36_AccPrefixParallel ==
    /\ PersistedParallel(Newest)
    /\ \A i \in DOMAIN result.log :
          /\ Parallel(result.log[i].spc.accuracy, result.log[i].spc.acc_prefix)
          /\ \A j \in DOMAIN result.log[i].spc.accuracy :
                GenerateTermsReads(result.log[i].spc.accuracy,
                                   result.log[i].spc.acc_prefix)[j] # BeyondTheEnd

\* C36 amended: the persisted lists are parallel; the specification of a field
\* with accuracies has them parallel, and no accuracy reads a prefix beyond
\* the end; a field without accuracies may carry the prefixes its document
\* named.
C36_AccPrefixParallelPersisted ==
    /\ PersistedParallel(Newest)
    /\ \A i \in DOMAIN result.log :
          /\ result.log[i].spc.accuracy # <<>> =>
                Parallel(result.log[i].spc.accuracy, result.log[i].spc.acc_prefix)
          /\ \A j \in DOMAIN result.log[i].spc.accuracy :
                GenerateTermsReads(result.log[i].spc.accuracy,
                                   result.log[i].spc.acc_prefix)[j] # BeyondTheEnd

C36_Witness ==
    /\ result.op = "index" /\ result.err = "" /\ calls >= 2
    /\ HasProp(Newest, <<"n">>, "_acc_prefix")
    /\ \E i \in DOMAIN result.log :
          /\ result.log[i].spc.full_meta_name = <<"n">>
          /\ result.log[i].value = Pos(7)
          /\ Len(result.log[i].spc.accuracy) = 2
          /\ result.log[i].spc.acc_prefix = get_acc_prefix(<<100, 1000>>)


----------------------------------------------------------------------------
(* Declaring again what is persisted *)

RedeclaredKeys == {"_type", "_slot", "_accuracy", "_bool_term"}

\* Two items of an `_accuracy` are the same number or the same name.
SameItem(a, b) == a.t = b.t /\ a.n = b.n /\ a.s = b.s

\* The value a document gives for a key is the persisted one.
SameAsPersisted(tree, p, key, v) ==
    IF key = "_type" THEN is_string(v) /\ v.items = tree.n[p]["_type"]
    ELSE IF key = "_slot" THEN is_number(v) /\ UserSlot(v.n) = tree.n[p]["_slot"]
    ELSE IF key = "_accuracy"
    THEN /\ is_array(v)
         /\ Len(v.items) = Len(tree.n[p]["_accuracy"])
         /\ \A i \in DOMAIN v.items : SameItem(v.items[i], tree.n[p]["_accuracy"][i])
    ELSE is_boolean(v) /\ boolean(v) = tree.n[p][key]

\* The field of the document declares only what the concrete node persists
\* (and may give a value).
RedeclaresField(tree, f, v) ==
    /\ is_map(v) /\ ConcreteAt(tree, <<f>>) # "empty"
    /\ \E i \in DOMAIN v.items : v.items[i][1] \in RedeclaredKeys
    /\ \A i \in DOMAIN v.items :
          \/ v.items[i][1] = "_value"
          \/ /\ v.items[i][1] \in RedeclaredKeys
             /\ HasProp(tree, <<f>>, v.items[i][1])
             /\ SameAsPersisted(tree, <<f>>, v.items[i][1], v.items[i][2])

Redeclares(tree, object) ==
    /\ is_map(object) /\ object.items # <<>>
    /\ \A i \in DOMAIN object.items :
          RedeclaresField(tree, object.items[i][1], object.items[i][2])

\* C37: a document that declares, for fields that are concrete, exactly the
\* `_type`, `_slot`, `_accuracy` or `_bool_term` the schema persists for them
\* is accepted and leaves the schema as it was.
C37_RedeclarationIdempotent ==
    [][result'.op = "index" /\ IsCall /\ Redeclares(Newest, result'.object) =>
          /\ result'.err = ""
          /\ NewestOf(schema', mut_schema') = Newest]_vars


----------------------------------------------------------------------------
(* Empty arrays *)

\* The fields a document gives an empty array for.
EmptyArrayFields(object) ==
    {object.items[i][1] : i \in {j \in DOMAIN object.items :
                                    /\ is_valid(object.items[j][1])
                                    /\ object.items[j][2] = Arr(<<>>)}}

\* Every field of the document is given an empty array, and there is one.
OnlyEmptyArrays(object) ==
    /\ is_map(object) /\ EmptyArrayFields(object) # {}
    /\ \A i \in DOMAIN object.items :
          is_valid(object.items[i][1]) => object.items[i][2] = Arr(<<>>)

\* C38: a document that gives empty arrays to fields of a root whose `_type`
\* is persisted adds no word to the `_type` of the root or of any node other
\* than the fields themselves.
C38_EmptyArrayTouchesOnlyField ==
    [][/\ result'.op = "index" /\ IsCall /\ result'.err = ""
       /\ HasProp(Newest, <<>>, "_type")
       /\ OnlyEmptyArrays(result'.object)
       => \A p \in DOMAIN Newest.n :
             p \notin {<<f>> : f \in EmptyArrayFields(result'.object)}
                => AddedWords(p) = {}]_vars


----------------------------------------------------------------------------
(* The cache of fed specifications *)

\* C40: a child fed from the cache has the specification its persisted
\* properties give under the current specification of its parent.
C40_FeedCacheTransparent ==
    \A i \in DOMAIN result.feeds : result.feeds[i].cached = result.feeds[i].fresh

====
